---- MODULE Spec2Model ----
(***************************************************************************)
(* A model of the VRAW container library: VrawWriter (init / start /       *)
(* submitFrame / stop), VrawReader (open / readFrame / close), the bit     *)
(* packer and unpacker, and the byte layout of the file they share.        *)
(* Files are sequences of bytes at their real offsets: the fixed header is *)
(* 512 bytes, a frame header 64 bytes, an index entry 8 bytes.             *)
(***************************************************************************)
EXTENDS Integers, Sequences, FiniteSets, TLC

(***************************************************************************)
(* Bounds of the model.                                                    *)
(***************************************************************************)
\* Largest number of pixels of a frame (width * height).
MaxPixels == 4
\* Largest number of submitFrame calls accepted on one writer instance.
MaxFrames == 2
\* Largest number of submitAudio calls accepted on one writer instance.
MaxAudioCalls == 1
\* Largest number of start() calls accepted on one writer instance.
MaxSessions == 2
\* Largest number of files created (successful fopen of init) in a behaviour.
MaxInits == 1

\* Calls of the writer during which an I/O call fails.
MaxIOFailures == 1

\* The longest sample array handed to the packers.
MaxPackLen == 5

\* submitAudio calls accepted in a recording with audio.
MaxAudioBlocks == 2

(***************************************************************************)
(* Program constants.                                                      *)
(***************************************************************************)
FILE_HEADER_SIZE == 512
FRAME_HEADER_SIZE == 64
AUDIO_HEADER_SIZE == 64

\* enum class Encoding
LINEAR_10BIT == 0
LOG2_10BIT == 1
LOG2_12BIT == 4
LINEAR_12BIT == 5

\* enum class Compression
NONE == 0
LZ4_FAST == 1

RECURSIVE Pow2(_)
Pow2(n) == IF n = 0 THEN 1 ELSE 2 * Pow2(n - 1)

\* Values of a uint64 or uint32 field too large for the model's integers are
\* all read as Huge; the model only compares them with file offsets.
Huge == Pow2(30) + (Pow2(30) - 1)

MAGIC_VRAW == <<86, 82, 65, 87>>
MAGIC_MRAW == <<77, 82, 65, 87>>
MAGIC_MAUD == <<77, 65, 85, 68>>
MAGIC_MIDX == <<77, 73, 68, 88>>

(***************************************************************************)
(* Bytes.                                                                  *)
(***************************************************************************)
Min(a, b) == IF a < b THEN a ELSE b
Max(a, b) == IF a > b THEN a ELSE b

Zeros(n) == [i \in 1..n |-> 0]

\* The n bytes of v, least significant first (the format is little-endian).
RECURSIVE LE(_, _)
LE(n, v) == IF n = 0 THEN <<>> ELSE <<v % 256>> \o LE(n - 1, v \div 256)

\* The value of a little-endian field, Huge when it does not fit.
RECURSIVE FromLE(_)
FromLE(bytes) ==
    IF bytes = <<>> THEN 0
    ELSE LET hi == FromLE(Tail(bytes))
         IN  IF hi >= 8388607 THEN Huge ELSE Head(bytes) + 256 * hi

\* The bytes of array of 16-bit samples as they lie in memory.
RECURSIVE SamplesToBytes(_)
SamplesToBytes(s) ==
    IF s = <<>> THEN <<>> ELSE LE(2, Head(s)) \o SamplesToBytes(Tail(s))

\* A byte buffer read as an array of 16-bit samples (the cast of the tests).
BytesToSamples(b) ==
    [i \in 1..(Len(b) \div 2) |-> b[2 * i - 1] + 256 * b[2 * i]]

\* fread of n bytes at offset pos (0-based): the bytes, or <<>> on a short read.
ReadAt(f, pos, n) ==
    IF pos <= Len(f) /\ n <= Len(f) - pos THEN SubSeq(f, pos + 1, pos + n)
    ELSE <<>>

\* fwrite of bytes at offset pos of a file: overwrites, and extends the file
\* (a gap left by a seek past the end reads as zeros).
WriteAt(f, pos, bytes) ==
    LET gap == IF pos > Len(f) THEN Zeros(pos - Len(f)) ELSE <<>>
    IN  SubSeq(f, 1, Min(pos, Len(f))) \o gap \o bytes
        \o SubSeq(f, pos + Len(bytes) + 1, Len(f))

(***************************************************************************)
(* Bit operations on small naturals.                                       *)
(***************************************************************************)
Shl(v, n) == v * Pow2(n)
Shr(v, n) == v \div Pow2(n)
\* v & (2^n - 1)
LowBits(v, n) == v % Pow2(n)
\* a | b for operands with no common set bit above the low n bits of b
BitOr(a, b) == a + b

(***************************************************************************)
(* Bit packer (VrawWriter) and unpacker (VrawReader).                      *)
(***************************************************************************)
\* The inner loop of packFrame10Bit: flush whole bytes of the accumulator.
RECURSIVE Flush10(_)
Flush10(st) ==
    IF st.bitCount >= 8
    THEN Flush10([bitBuffer |-> Shr(st.bitBuffer, 8),
                  bitCount |-> st.bitCount - 8,
                  out |-> Append(st.out, LowBits(st.bitBuffer, 8))])
    ELSE st

RECURSIVE Pack10Loop(_, _, _)
Pack10Loop(src, i, st) ==
    IF i > Len(src) THEN st
    ELSE LET sample == LowBits(src[i], 10)
             acc == [bitBuffer |-> BitOr(st.bitBuffer, Shl(sample, st.bitCount)),
                     bitCount |-> st.bitCount + 10,
                     out |-> st.out]
         IN  Pack10Loop(src, i + 1, Flush10(acc))

packFrame10Bit(src) ==
    LET pixelCount == Len(src)
        packedBytes == (pixelCount * 10 + 7) \div 8
        st == Pack10Loop(src, 1, [bitBuffer |-> 0, bitCount |-> 0, out |-> <<>>])
        out == IF st.bitCount > 0
               THEN Append(st.out, LowBits(st.bitBuffer, 8)) ELSE st.out
    IN  SubSeq(out \o Zeros(packedBytes), 1, packedBytes)

RECURSIVE Pack12Loop(_, _, _)
Pack12Loop(src, i, out) ==
    IF i > Len(src) THEN out
    ELSE LET pixel1 == LowBits(src[i], 12)
         IN  IF i + 1 <= Len(src)
             THEN LET pixel2 == LowBits(src[i + 1], 12)
                  IN  Pack12Loop(src, i + 2,
                        out \o << LowBits(Shr(pixel1, 4), 8),
                                  BitOr(Shl(LowBits(pixel1, 4), 4),
                                        LowBits(Shr(pixel2, 8), 4)),
                                  LowBits(pixel2, 8) >>)
             ELSE Pack12Loop(src, i + 2,
                        out \o << LowBits(Shr(pixel1, 4), 8),
                                  Shl(LowBits(pixel1, 4), 4) >>)

packFrame12Bit(src) ==
    LET pixelCount == Len(src)
        packedBytes == (pixelCount * 3 + 1) \div 2
        out == Pack12Loop(src, 1, <<>>)
    IN  SubSeq(out \o Zeros(packedBytes), 1, packedBytes)

\* unpackFrame10Bit: st = [bitBuffer, bitCount, srcIdx (0-based), px (samples)]
RECURSIVE Load10(_, _)
Load10(src, st) ==
    IF st.bitCount < 10 /\ st.srcIdx < Len(src)
    THEN Load10(src, [st EXCEPT
            !.bitBuffer = BitOr(@, Shl(src[st.srcIdx + 1], st.bitCount)),
            !.bitCount = @ + 8,
            !.srcIdx = @ + 1])
    ELSE st

RECURSIVE Unpack10Loop(_, _, _)
Unpack10Loop(src, pixelCount, st) ==
    IF Len(st.px) < pixelCount /\ st.srcIdx < Len(src)
    THEN LET ld == Load10(src, st)
         IN  IF ld.bitCount >= 10
             THEN Unpack10Loop(src, pixelCount, [ld EXCEPT
                    !.px = Append(@, LowBits(ld.bitBuffer, 10)),
                    !.bitBuffer = Shr(@, 10),
                    !.bitCount = @ - 10])
             ELSE Unpack10Loop(src, pixelCount, ld)
    ELSE st

\* The result is the byte vector dst, resized to pixelCount * 2 (zero-filled).
unpackFrame10Bit(src, pixelCount) ==
    LET st == Unpack10Loop(src, pixelCount,
                [bitBuffer |-> 0, bitCount |-> 0, srcIdx |-> 0, px |-> <<>>])
        decoded == SamplesToBytes(st.px)
    IN  decoded \o Zeros(pixelCount * 2 - Len(decoded))

RECURSIVE Unpack12Loop(_, _, _)
Unpack12Loop(src, pixelCount, st) ==
    IF Len(st.px) < pixelCount /\ st.srcIdx + 2 < Len(src)
    THEN LET b0 == src[st.srcIdx + 1]
             b1 == src[st.srcIdx + 2]
             b2 == src[st.srcIdx + 3]
             p1 == BitOr(Shl(b0, 4), LowBits(Shr(b1, 4), 4))
             p2 == BitOr(Shl(LowBits(b1, 4), 8), b2)
         IN  Unpack12Loop(src, pixelCount,
                [srcIdx |-> st.srcIdx + 3,
                 px |-> IF Len(st.px) + 1 < pixelCount
                        THEN st.px \o <<p1, p2>> ELSE Append(st.px, p1)])
    ELSE st

\* unpackFrame12Bit without its step for the trailing byte pair: a faulty
\* variant.
unpackFrame12Bit_NoTail(src, pixelCount) ==
    LET st == Unpack12Loop(src, pixelCount, [srcIdx |-> 0, px |-> <<>>])
        decoded == SamplesToBytes(st.px)
    IN  decoded \o Zeros(pixelCount * 2 - Len(decoded))

\* unpackFrame12Bit reading the 10-bit layout: a faulty variant.
unpackFrame12Bit_TenBitLayout(src, pixelCount) ==
    unpackFrame10Bit(src, pixelCount)

unpackFrame12Bit(src, pixelCount) ==
    LET st == Unpack12Loop(src, pixelCount, [srcIdx |-> 0, px |-> <<>>])
        px == IF Len(st.px) < pixelCount /\ st.srcIdx + 1 < Len(src)
              THEN Append(st.px,
                     BitOr(Shl(src[st.srcIdx + 1], 4),
                           LowBits(Shr(src[st.srcIdx + 2], 4), 4)))
              ELSE st.px
        decoded == SamplesToBytes(px)
    IN  decoded \o Zeros(pixelCount * 2 - Len(decoded))

(***************************************************************************)
(* Log pixel transform (Encoding.cpp).  The source computes in binary32;   *)
(* the model computes log2 in 14-bit fixed point, which agrees with the    *)
(* source except at rounding boundaries, where it may differ by one code.  *)
(***************************************************************************)
\* floor(log2(num / den)) for num >= den > 0
RECURSIVE Log2Floor(_, _, _)
Log2Floor(num, den, e) ==
    IF den * 2 <= num THEN Log2Floor(num, den * 2, e + 1) ELSE e

\* The 14 fraction bits of rem / den (rem < den), by long division.
RECURSIVE FracBits(_, _, _, _)
FracBits(rem, den, k, acc) ==
    IF k = 0 THEN acc
    ELSE IF 2 * rem >= den
         THEN FracBits(2 * rem - den, den, k - 1, 2 * acc + 1)
         ELSE FracBits(2 * rem, den, k - 1, 2 * acc)

\* The 14 fraction bits of log2(x / 2^14) for x in [2^14, 2^15), by squaring.
RECURSIVE Log2Frac(_, _, _)
Log2Frac(x, k, acc) ==
    IF k = 0 THEN acc
    ELSE LET sq == (x * x) \div 16384
         IN  IF sq >= 32768
             THEN Log2Frac(sq \div 2, k - 1, 2 * acc + 1)
             ELSE Log2Frac(sq, k - 1, 2 * acc)

\* The encoder without the + 0.5 that rounds to the nearest code: a faulty
\* variant.
encodePixelLog_Truncates(pixel, blackLevel, whiteLevel, bits) ==
    LET maxCode == Pow2(bits) - 1
        linear == pixel - blackLevel
        range == whiteLevel - blackLevel
    IN  IF linear <= 0 THEN 0
        ELSE IF range = 0 THEN maxCode        \* x / 0.0f = +inf, clamped to 1
        ELSE IF range < 0 THEN 0              \* negative, clamped to 0
        ELSE LET l == Min(linear, range)
                 num == maxCode * l + range
                 e == Log2Floor(num, range, 0)
                 den == range * Pow2(e)
                 x == 16384 + FracBits(num - den, den, 14, 0)
                 L == e * 16384 + Log2Frac(x, 14, 0)
                 code == (L * maxCode) \div (bits * 16384)
             IN  Min(code, maxCode)

\* The encoder wrapping its result around at the largest code instead of
\* clamping it: a faulty variant.
encodePixelLog_Wraps(pixel, blackLevel, whiteLevel, bits) ==
    LET maxCode == Pow2(bits) - 1
        linear == pixel - blackLevel
        range == whiteLevel - blackLevel
    IN  IF linear <= 0 THEN 0
        ELSE IF range = 0 THEN maxCode        \* x / 0.0f = +inf, clamped to 1
        ELSE IF range < 0 THEN 0              \* negative, clamped to 0
        ELSE LET l == Min(linear, range)
                 num == maxCode * l + range
                 e == Log2Floor(num, range, 0)
                 den == range * Pow2(e)
                 x == 16384 + FracBits(num - den, den, 14, 0)
                 L == e * 16384 + Log2Frac(x, 14, 0)
                 code == (L * maxCode * 2 + bits * 16384) \div (2 * bits * 16384)
             IN  code % maxCode

\* The encoder without the clamp of normalized to [0, 1] and without the
\* final min: a faulty variant.
encodePixelLog_NoClamp(pixel, blackLevel, whiteLevel, bits) ==
    LET maxCode == Pow2(bits) - 1
        linear == pixel - blackLevel
        range == whiteLevel - blackLevel
    IN  IF linear <= 0 THEN 0
        ELSE IF range = 0 THEN maxCode
        ELSE IF range < 0 THEN 0
        ELSE LET num == maxCode * linear + range
                 e == Log2Floor(num, range, 0)
                 den == range * Pow2(e)
                 x == 16384 + FracBits(num - den, den, 14, 0)
                 L == e * 16384 + Log2Frac(x, 14, 0)
             IN  (L * maxCode * 2 + bits * 16384) \div (2 * bits * 16384)

\* (uint16)(log2(normalized * maxCode + 1) / bits * maxCode + 0.5), clamped
encodePixelLog(pixel, blackLevel, whiteLevel, bits) ==
    LET maxCode == Pow2(bits) - 1
        linear == pixel - blackLevel
        range == whiteLevel - blackLevel
    IN  IF linear <= 0 THEN 0
        ELSE IF range = 0 THEN maxCode        \* x / 0.0f = +inf, clamped to 1
        ELSE IF range < 0 THEN 0              \* negative, clamped to 0
        ELSE LET l == Min(linear, range)
                 num == maxCode * l + range
                 e == Log2Floor(num, range, 0)
                 den == range * Pow2(e)
                 x == 16384 + FracBits(num - den, den, 14, 0)
                 L == e * 16384 + Log2Frac(x, 14, 0)
                 code == (L * maxCode * 2 + bits * 16384) \div (2 * bits * 16384)
             IN  Min(code, maxCode)

encodePixelLog10Bit(pixel, blackLevel, whiteLevel) ==
    encodePixelLog(pixel, blackLevel, whiteLevel, 10)

encodePixelLog12Bit(pixel, blackLevel, whiteLevel) ==
    encodePixelLog(pixel, blackLevel, whiteLevel, 12)

encodeLog10Bit(input, blackLevel, whiteLevel) ==
    [i \in 1..Len(input) |-> encodePixelLog10Bit(input[i], blackLevel, whiteLevel)]

encodeLog12Bit(input, blackLevel, whiteLevel) ==
    [i \in 1..Len(input) |-> encodePixelLog12Bit(input[i], blackLevel, whiteLevel)]

\* log2(num / den) in 14-bit fixed point, for num >= den > 0.
Log2Fixed(num, den) ==
    LET e == Log2Floor(num, den, 0)
        d == den * Pow2(e)
        x == 16384 + FracBits(num - d, d, 14, 0)
    IN  e * 16384 + Log2Frac(x, 14, 0)

\* The largest k in lo..hi with
\*   log2(((2k - 1) * maxCode + 2 * range) / (2 * range)) <= X / (16384 * maxCode),
\* that is, with k - 0.5 <= (2^(X / (16384 * maxCode)) - 1) / maxCode * range;
\* lo is known to be one.
RECURSIVE DecodeSearch(_, _, _, _, _)
DecodeSearch(lo, hi, X, maxCode, range) ==
    IF lo = hi THEN lo
    ELSE LET k == (lo + hi + 1) \div 2
         IN  IF maxCode * Log2Fixed((2 * k - 1) * maxCode + 2 * range, 2 * range)
                   <= X
             THEN DecodeSearch(k, hi, X, maxCode, range)
             ELSE DecodeSearch(lo, k - 1, X, maxCode, range)

\* (int32)(linear * (whiteLevel - blackLevel) + blackLevel + 0.5) with
\* linear = (exp2(encoded / maxCode * bits) - 1) / maxCode clamped to [0, 1],
\* for whiteLevel >= blackLevel.  exp2 is computed as the inverse of the
\* fixed-point log2.
decodePixelLog(encoded, blackLevel, whiteLevel, bits) ==
    LET maxCode == Pow2(bits) - 1
        range == whiteLevel - blackLevel
        X == Min(encoded, maxCode) * bits * 16384
    IN  IF range <= 0 THEN blackLevel
        ELSE Min(blackLevel + DecodeSearch(0, range, X, maxCode, range), 65535)

decodePixelLog10Bit(encoded, blackLevel, whiteLevel) ==
    decodePixelLog(encoded, blackLevel, whiteLevel, 10)

decodePixelLog12Bit(encoded, blackLevel, whiteLevel) ==
    decodePixelLog(encoded, blackLevel, whiteLevel, 12)

decodeLog10Bit(input, blackLevel, whiteLevel) ==
    [i \in 1..Len(input) |-> decodePixelLog10Bit(input[i], blackLevel, whiteLevel)]

decodeLog12Bit(input, blackLevel, whiteLevel) ==
    [i \in 1..Len(input) |-> decodePixelLog12Bit(input[i], blackLevel, whiteLevel)]

(***************************************************************************)
(* The external byte compressor.  Only its contract is modelled: compress  *)
(* returns a sized output that may or may not be smaller than its input,   *)
(* decompress inverts it, fails on malformed input and never writes more   *)
(* than the capacity it is given.  The stand-in is a run-length code, a    *)
(* sequence of (count, byte) pairs.                                        *)
(***************************************************************************)
RECURSIVE RunLength(_, _)
RunLength(src, i) ==
    IF i > Len(src) THEN 0
    ELSE IF i < Len(src) /\ src[i + 1] = src[i] THEN 1 + RunLength(src, i + 1)
    ELSE 1

RECURSIVE LZ4_compress_default(_)
LZ4_compress_default(src) ==
    IF src = <<>> THEN <<>>
    ELSE LET n == RunLength(src, 1)
         IN  <<n, src[1]>> \o LZ4_compress_default(SubSeq(src, n + 1, Len(src)))

\* The decoded bytes, or <<-1>> for malformed input or an output that does
\* not fit dstCapacity.
RECURSIVE LZ4_expand(_, _)
LZ4_expand(src, dstCapacity) ==
    IF src = <<>> THEN <<>>
    ELSE IF Len(src) = 1 \/ src[1] = 0 \/ src[1] > dstCapacity THEN <<-1>>
    ELSE LET rest == LZ4_expand(SubSeq(src, 3, Len(src)), dstCapacity - src[1])
         IN  IF rest = <<-1>> THEN rest ELSE [i \in 1..src[1] |-> src[2]] \o rest

\* [n |-> the return value (-1 on failure, else the decoded size),
\*  dst |-> the destination buffer of dstCapacity bytes afterwards]
LZ4_decompress_safe(src, dstCapacity) ==
    LET out == LZ4_expand(src, dstCapacity)
    IN  IF out = <<-1>> THEN [n |-> -1, dst |-> Zeros(dstCapacity)]
        ELSE [n |-> Len(out), dst |-> out \o Zeros(dstCapacity - Len(out))]

(***************************************************************************)
(* State.                                                                  *)
(***************************************************************************)
VARIABLES
    writer,   \* the fields of the one VrawWriter instance
    reader,   \* the fields of the one VrawReader instance
    disk,     \* the file system: path -> bytes of the file
    ret,      \* the last call made and what it returned
    ghost     \* history of the file at OutPath (not program state)

vars == <<writer, reader, disk, ret, ghost>>

OutPath == "out.vraw"
MissingPath == "missing.vraw"

\* A FILE*: NULL, or an open stream with its position.
NULL == [open |-> FALSE, pos |-> 0]
Stream(pos) == [open |-> TRUE, pos |-> pos]

\* Bit patterns of the binary32 constants the writer stores.
F32_100 == 1120403456
F32_16_67 == 1099258921
F32_1 == 1065353216

(***************************************************************************)
(* File layout (SimpleFileHeader, SimpleFrameHeader, AudioStreamHeader).   *)
(***************************************************************************)
OFF_frame_count == 32
OFF_index_offset == 36
OFF_has_audio == 60
OFF_audio_offset == 68
OFF_audio_start_time_us == 76

RECURSIVE LE16s(_)
LE16s(a) == IF a = <<>> THEN <<>> ELSE LE(2, Head(a)) \o LE16s(Tail(a))

SimpleFileHeaderBytes(fh) ==
    fh.magic \o LE(4, fh.version) \o LE(4, fh.width) \o LE(4, fh.height)
    \o <<fh.bayer_pattern, fh.encoding, fh.compression, 0>>
    \o LE16s(fh.black_level) \o LE(2, fh.white_level) \o LE(2, 0)
    \o LE(4, fh.frame_count) \o LE(8, fh.index_offset)
    \o LE(4, fh.native_width) \o LE(4, fh.native_height)
    \o LE(4, fh.binning_num) \o LE(4, fh.binning_den)
    \o <<fh.has_audio, fh.audio_channels, fh.audio_bit_depth, 0>>
    \o LE(4, fh.audio_sample_rate) \o LE(8, fh.audio_offset)
    \o LE(8, fh.audio_start_time_us)
    \o <<fh.has_timecode, fh.timecode_format, fh.timecode_fps,
         fh.timecode_drop_frame>>
    \o LE(4, fh.timecode_start_frame)
    \o <<fh.timecode_hours, fh.timecode_minutes, fh.timecode_seconds,
         fh.timecode_frames>>
    \o Zeros(4) \o LE(4, fh.sensor_orientation) \o Zeros(408)

SimpleFrameHeaderBytes(fh) ==
    LE(8, fh.timestamp_us) \o LE(4, fh.frame_number)
    \o LE(4, fh.compressed_size) \o LE(4, fh.uncompressed_size)
    \o LE(4, fh.iso) \o LE(4, fh.exposure_time_ms)
    \o LE(4, fh.white_balance_r) \o LE(4, fh.white_balance_g)
    \o LE(4, fh.white_balance_b)
    \o LE(4, fh.focal_length) \o LE(4, fh.aperture) \o LE(4, fh.focus_distance)
    \o LE16s(fh.dynamic_black_level) \o Zeros(4)

AudioStreamHeaderBytes(ash) ==
    MAGIC_MAUD \o LE(4, ash.version) \o LE(4, ash.sample_rate)
    \o LE(2, ash.channels) \o LE(2, ash.bit_depth)
    \o LE(8, ash.sample_count) \o LE(8, ash.start_timestamp_us) \o Zeros(32)

(***************************************************************************)
(* VrawWriter.                                                             *)
(***************************************************************************)
\* VrawWriter::VrawWriter()
NewWriter ==
    [outputFile_ |-> NULL, outputPath_ |-> "", isRecording_ |-> FALSE,
     width_ |-> 0, height_ |-> 0, nativeWidth_ |-> 0, nativeHeight_ |-> 0,
     encoding_ |-> LINEAR_12BIT, compression_ |-> NONE,
     writePacked_ |-> FALSE, useCompression_ |-> FALSE,
     binningNum_ |-> 1, binningDen_ |-> 1,
     frameNumber_ |-> 0, bytesWritten_ |-> 0, frameOffsets_ |-> <<>>,
     blackLevel_ |-> <<64, 64, 64, 64>>, whiteLevel_ |-> 4095,
     sensorOrientation_ |-> 0,
     audioEnabled_ |-> FALSE, audioSampleRate_ |-> 48000,
     audioChannels_ |-> 2, audioStartTime_ |-> 0, audioBuffer_ |-> <<>>]

\* fwrite on the writer's stream: at the stream's position, which advances.
\* st = [w |-> writer fields, d |-> disk]
Fwrite(st, bytes) ==
    LET path == st.w.outputPath_
        pos == st.w.outputFile_.pos
    IN  [w |-> [st.w EXCEPT !.outputFile_.pos = pos + Len(bytes)],
         d |-> [st.d EXCEPT ![path] = WriteAt(@, pos, bytes)]]

Fseek(st, pos) == [st EXCEPT !.w.outputFile_.pos = pos]

FseekEnd(st) == Fseek(st, Len(st.d[st.w.outputPath_]))

\* The path with contents f added to (or replaced in) disk d.
PutFile(d, path, f) ==
    [q \in DOMAIN d \cup {path} |-> IF q = path THEN f ELSE d[q]]

\* VrawWriter::init after its argument checks: the fields, fopen and the
\* file header.  a = the arguments; a.blackLevel = <<>> is nullptr;
\* io names the I/O call that fails, if any ("ok", "fopen", "fwrite").
\* The result is [ok, w, d].
OpenOutput(w, d, a, io) ==
    LET binned == a.nativeWidth > a.width /\ a.nativeHeight > a.height
        w1 == [w EXCEPT
                !.width_ = a.width, !.height_ = a.height,
                !.outputPath_ = a.outputPath, !.encoding_ = a.encoding,
                !.blackLevel_ = IF a.blackLevel # <<>> THEN a.blackLevel
                                ELSE <<64, 64, 64, 64>>,
                !.whiteLevel_ = a.whiteLevel,
                !.sensorOrientation_ = a.sensorOrientation,
                !.nativeWidth_ = IF a.nativeWidth > 0 THEN a.nativeWidth
                                 ELSE a.width,
                !.nativeHeight_ = IF a.nativeHeight > 0 THEN a.nativeHeight
                                  ELSE a.height,
                !.binningNum_ = 1,
                !.binningDen_ = IF binned THEN a.nativeWidth \div a.width ELSE 1,
                !.writePacked_ = a.usePacking,
                !.useCompression_ = a.useCompression,
                !.compression_ = IF a.useCompression THEN LZ4_FAST ELSE NONE,
                !.frameNumber_ = 0, !.bytesWritten_ = 0]
        fh == [magic |-> MAGIC_VRAW, version |-> 2,
               width |-> a.width, height |-> a.height,
               bayer_pattern |-> a.bayerPattern, encoding |-> w1.encoding_,
               compression |-> w1.compression_,
               black_level |-> w1.blackLevel_, white_level |-> w1.whiteLevel_,
               frame_count |-> 0, index_offset |-> 0,
               native_width |-> w1.nativeWidth_,
               native_height |-> w1.nativeHeight_,
               binning_num |-> w1.binningNum_, binning_den |-> w1.binningDen_,
               has_audio |-> 0, audio_channels |-> 2, audio_bit_depth |-> 16,
               audio_sample_rate |-> 48000, audio_offset |-> 0,
               audio_start_time_us |-> 0,
               has_timecode |-> 1, timecode_format |-> 0, timecode_fps |-> 24,
               timecode_drop_frame |-> 0, timecode_start_frame |-> 0,
               timecode_hours |-> a.now[1], timecode_minutes |-> a.now[2],
               timecode_seconds |-> a.now[3], timecode_frames |-> 0,
               sensor_orientation |-> w1.sensorOrientation_]
        \* fopen(path, "wb") creates the file or truncates it to zero length
        opened == [w |-> [w1 EXCEPT !.outputFile_ = Stream(0)],
                   d |-> PutFile(d, a.outputPath, <<>>)]
        written == Fwrite(opened, SimpleFileHeaderBytes(fh))
    IN  IF io = "fopen" THEN [ok |-> FALSE, w |-> w1, d |-> d]
        ELSE IF io = "fwrite"
        THEN [ok |-> FALSE, w |-> w1, d |-> opened.d]
        ELSE [ok |-> TRUE,
              w |-> [written.w EXCEPT !.bytesWritten_ = FILE_HEADER_SIZE],
              d |-> written.d]

\* init without its first check (outputFile_ already open): a faulty variant.
init_NoOpenCheck(w, d, a, io) ==
    IF a.width = 0 \/ a.height = 0 \/ a.outputPath = ""
    THEN [ok |-> FALSE, w |-> w, d |-> d]
    ELSE OpenOutput(w, d, a, io)

\* VrawWriter::init.
init(w, d, a, io) ==
    IF w.outputFile_.open THEN [ok |-> FALSE, w |-> w, d |-> d]
    ELSE IF a.width = 0 \/ a.height = 0 \/ a.outputPath = ""
    THEN [ok |-> FALSE, w |-> w, d |-> d]
    ELSE OpenOutput(w, d, a, io)

\* VrawWriter::start.  The result is [ok, w].
start(w) ==
    IF ~w.outputFile_.open \/ w.isRecording_ THEN [ok |-> FALSE, w |-> w]
    ELSE [ok |-> TRUE,
          w |-> [w EXCEPT !.isRecording_ = TRUE, !.frameNumber_ = 0,
                          !.frameOffsets_ = <<>>]]

Is12Bit(encoding) == encoding = LOG2_12BIT \/ encoding = LINEAR_12BIT
IsLog(encoding) == encoding = LOG2_10BIT \/ encoding = LOG2_12BIT

\* The pipeline storing the compressor's output when it is as long as its
\* input: a faulty variant.
FramePipeline_AcceptsEqual(w, data, io) ==
    LET pixelCount == w.width_ * w.height_
        src == SubSeq(data, 1, pixelCount)
        avgBlackLevel == (w.blackLevel_[1] + w.blackLevel_[2]
                          + w.blackLevel_[3] + w.blackLevel_[4]) \div 4
        dataToWrite ==
            IF w.encoding_ = LOG2_12BIT
            THEN encodeLog12Bit(src, avgBlackLevel, w.whiteLevel_)
            ELSE IF w.encoding_ = LOG2_10BIT
            THEN encodeLog10Bit(src, avgBlackLevel, w.whiteLevel_)
            ELSE src
        packed == IF ~w.writePacked_ THEN SamplesToBytes(dataToWrite)
                  ELSE IF Is12Bit(w.encoding_) THEN packFrame12Bit(dataToWrite)
                  ELSE packFrame10Bit(dataToWrite)
        payloadBytes == Len(packed)
        compressed == IF io = "lz4" THEN <<>> ELSE LZ4_compress_default(packed)
        compressedSize == Len(compressed)
    IN  IF w.useCompression_
        THEN IF compressedSize > 0 /\ compressedSize <= payloadBytes
             THEN [uncompressed_size |-> payloadBytes,
                   compressed_size |-> compressedSize, payload |-> compressed,
                   packed |-> packed]
             ELSE [uncompressed_size |-> payloadBytes,
                   compressed_size |-> 0, payload |-> packed,
                   packed |-> packed]
        ELSE [uncompressed_size |-> payloadBytes,
              compressed_size |-> IF w.writePacked_ THEN payloadBytes ELSE 0,
              payload |-> packed, packed |-> packed]

\* The pipeline leaving the compressor's result in the header of a frame it
\* stores uncompressed: a faulty variant.
FramePipeline_RejectKeepsSize(w, data, io) ==
    LET pixelCount == w.width_ * w.height_
        src == SubSeq(data, 1, pixelCount)
        avgBlackLevel == (w.blackLevel_[1] + w.blackLevel_[2]
                          + w.blackLevel_[3] + w.blackLevel_[4]) \div 4
        dataToWrite ==
            IF w.encoding_ = LOG2_12BIT
            THEN encodeLog12Bit(src, avgBlackLevel, w.whiteLevel_)
            ELSE IF w.encoding_ = LOG2_10BIT
            THEN encodeLog10Bit(src, avgBlackLevel, w.whiteLevel_)
            ELSE src
        packed == IF ~w.writePacked_ THEN SamplesToBytes(dataToWrite)
                  ELSE IF Is12Bit(w.encoding_) THEN packFrame12Bit(dataToWrite)
                  ELSE packFrame10Bit(dataToWrite)
        payloadBytes == Len(packed)
        compressed == IF io = "lz4" THEN <<>> ELSE LZ4_compress_default(packed)
        compressedSize == Len(compressed)
    IN  IF w.useCompression_
        THEN IF compressedSize > 0 /\ compressedSize < payloadBytes
             THEN [uncompressed_size |-> payloadBytes,
                   compressed_size |-> compressedSize, payload |-> compressed,
                   packed |-> packed]
             ELSE [uncompressed_size |-> payloadBytes,
                   compressed_size |-> compressedSize, payload |-> packed,
                   packed |-> packed]
        ELSE [uncompressed_size |-> payloadBytes,
              compressed_size |-> IF w.writePacked_ THEN payloadBytes ELSE 0,
              payload |-> packed, packed |-> packed]

\* The pipeline recording the size of the samples before packing as the
\* uncompressed size: a faulty variant.
FramePipeline_SizeBeforePacking(w, data, io) ==
    LET pixelCount == w.width_ * w.height_
        src == SubSeq(data, 1, pixelCount)
        avgBlackLevel == (w.blackLevel_[1] + w.blackLevel_[2]
                          + w.blackLevel_[3] + w.blackLevel_[4]) \div 4
        dataToWrite ==
            IF w.encoding_ = LOG2_12BIT
            THEN encodeLog12Bit(src, avgBlackLevel, w.whiteLevel_)
            ELSE IF w.encoding_ = LOG2_10BIT
            THEN encodeLog10Bit(src, avgBlackLevel, w.whiteLevel_)
            ELSE src
        packed == IF ~w.writePacked_ THEN SamplesToBytes(dataToWrite)
                  ELSE IF Is12Bit(w.encoding_) THEN packFrame12Bit(dataToWrite)
                  ELSE packFrame10Bit(dataToWrite)
        payloadBytes == Len(packed)
        compressed == IF io = "lz4" THEN <<>> ELSE LZ4_compress_default(packed)
        compressedSize == Len(compressed)
    IN  IF w.useCompression_
        THEN IF compressedSize > 0 /\ compressedSize < payloadBytes
             THEN [uncompressed_size |-> pixelCount * 2,
                   compressed_size |-> compressedSize, payload |-> compressed,
                   packed |-> packed]
             ELSE [uncompressed_size |-> pixelCount * 2,
                   compressed_size |-> 0, payload |-> packed,
                   packed |-> packed]
        ELSE [uncompressed_size |-> pixelCount * 2,
              compressed_size |-> IF w.writePacked_ THEN payloadBytes ELSE 0,
              payload |-> packed, packed |-> packed]

\* The per-frame pipeline of submitFrame: log-encode, pack, compress (io =
\* "lz4": LZ4_compress_default fails and returns 0).  The result is
\* [uncompressed_size, compressed_size, payload, packed], packed being the
\* bytes handed to the compressor.
FramePipeline(w, data, io) ==
    LET pixelCount == w.width_ * w.height_
        src == SubSeq(data, 1, pixelCount)
        avgBlackLevel == (w.blackLevel_[1] + w.blackLevel_[2]
                          + w.blackLevel_[3] + w.blackLevel_[4]) \div 4
        dataToWrite ==
            IF w.encoding_ = LOG2_12BIT
            THEN encodeLog12Bit(src, avgBlackLevel, w.whiteLevel_)
            ELSE IF w.encoding_ = LOG2_10BIT
            THEN encodeLog10Bit(src, avgBlackLevel, w.whiteLevel_)
            ELSE src
        packed == IF ~w.writePacked_ THEN SamplesToBytes(dataToWrite)
                  ELSE IF Is12Bit(w.encoding_) THEN packFrame12Bit(dataToWrite)
                  ELSE packFrame10Bit(dataToWrite)
        payloadBytes == Len(packed)
        compressed == IF io = "lz4" THEN <<>> ELSE LZ4_compress_default(packed)
        compressedSize == Len(compressed)
    IN  IF w.useCompression_
        THEN IF compressedSize > 0 /\ compressedSize < payloadBytes
             THEN [uncompressed_size |-> payloadBytes,
                   compressed_size |-> compressedSize, payload |-> compressed,
                   packed |-> packed]
             ELSE [uncompressed_size |-> payloadBytes,
                   compressed_size |-> 0, payload |-> packed,
                   packed |-> packed]
        ELSE [uncompressed_size |-> payloadBytes,
              compressed_size |-> IF w.writePacked_ THEN payloadBytes ELSE 0,
              payload |-> packed, packed |-> packed]

\* The second half of VrawWriter::submitFrame: the index entry, the frame
\* header and the payload p that FramePipeline made.
WriteFrame(w, d, p, timestampUs, wb, dynamicBlackLevel, io) ==
    LET w1 == [w EXCEPT !.frameOffsets_ = Append(@, w.bytesWritten_),
                        !.frameNumber_ = @ + 1]
        fh == [timestamp_us |-> timestampUs, frame_number |-> w.frameNumber_,
               compressed_size |-> p.compressed_size,
               uncompressed_size |-> p.uncompressed_size,
               iso |-> F32_100, exposure_time_ms |-> F32_16_67,
               white_balance_r |-> wb[1], white_balance_g |-> wb[2],
               white_balance_b |-> wb[3],
               focal_length |-> 0, aperture |-> 0, focus_distance |-> 0,
               dynamic_black_level |->
                   IF dynamicBlackLevel # <<>> THEN dynamicBlackLevel
                   ELSE w.blackLevel_]
        s1 == Fwrite([w |-> w1, d |-> d], SimpleFrameHeaderBytes(fh))
        s2 == [s1 EXCEPT !.w.bytesWritten_ = @ + FRAME_HEADER_SIZE]
        s3 == Fwrite(s2, p.payload)
        s4 == [s3 EXCEPT !.w.bytesWritten_ = @ + Len(p.payload)]
    IN  IF io = "header" THEN [ok |-> FALSE, w |-> w1, d |-> d]
        ELSE IF io = "payload" THEN [ok |-> FALSE, w |-> s2.w, d |-> s2.d]
        ELSE [ok |-> TRUE, w |-> s4.w, d |-> s4.d]

\* submitFrame without its isRecording_ check: a faulty variant.
submitFrame_NoRecordingCheck(w, d, data, timestampUs, wb, dynamicBlackLevel, io) ==
    IF ~w.outputFile_.open \/ data = <<>>
    THEN [ok |-> FALSE, w |-> w, d |-> d]
    ELSE WriteFrame(w, d, FramePipeline(w, data, io), timestampUs, wb,
                    dynamicBlackLevel, io)

\* VrawWriter::submitFrame.  data = <<>> is a null pointer, dynamicBlackLevel
\* = <<>> is nullptr; io names the call that fails, if any ("ok", "lz4",
\* "header", "payload").  The result is [ok, w, d].
submitFrame(w, d, data, timestampUs, wb, dynamicBlackLevel, io) ==
    IF ~w.isRecording_ \/ ~w.outputFile_.open \/ data = <<>>
    THEN [ok |-> FALSE, w |-> w, d |-> d]
    ELSE WriteFrame(w, d, FramePipeline(w, data, io), timestampUs, wb,
                    dynamicBlackLevel, io)

\* The audio block of stop(): the block, then the three header patches,
\* whose fwrite results are not looked at (io = "audioPatch": they fail).
StopAudio(st, io) ==
    LET w == st.w
        audio_offset == w.bytesWritten_
        ash == [version |-> 1, sample_rate |-> w.audioSampleRate_,
                channels |-> w.audioChannels_, bit_depth |-> 16,
                sample_count |-> Len(w.audioBuffer_) \div w.audioChannels_,
                start_timestamp_us |-> w.audioStartTime_]
        audioBytes == LE16s(w.audioBuffer_)
        s1 == Fwrite(st, AudioStreamHeaderBytes(ash))
        s2 == [s1 EXCEPT !.w.bytesWritten_ = @ + AUDIO_HEADER_SIZE]
        s3 == Fwrite(s2, audioBytes)
        s4 == [s3 EXCEPT !.w.bytesWritten_ = @ + Len(audioBytes)]
        s5 == Fwrite(Fseek(s4, OFF_has_audio), <<1>>)
        s6 == Fwrite(Fseek(s5, OFF_audio_offset), LE(8, audio_offset))
        s7 == Fwrite(Fseek(s6, OFF_audio_start_time_us),
                     LE(8, w.audioStartTime_))
    IN  IF io = "audioHeader" THEN st
        ELSE IF io = "audioData" THEN s2
        ELSE IF io = "audioPatch" THEN FseekEnd(s4)
        ELSE FseekEnd(s7)

\* The index loop of stop(): one 8-byte entry per recorded offset.
RECURSIVE StopIndex(_, _)
StopIndex(st, i) ==
    IF i > Len(st.w.frameOffsets_) THEN st
    ELSE LET s1 == Fwrite(st, LE(8, st.w.frameOffsets_[i]))
         IN  StopIndex([s1 EXCEPT !.w.bytesWritten_ = @ + 8], i + 1)

\* VrawWriter::stop.  io names the I/O call that fails, if any: "ok";
\* "audioHeader", "audioData", "indexEntry" (the fwrites stop() checks);
\* "audioPatch", "indexTrailer", "headerSeek", "headerPatch" (the calls whose
\* results it does not look at).  A failed fwrite writes nothing, a failed
\* fseek leaves the position where it was.  The result is [ok, w, d].
stop(w, d, io) ==
    IF ~w.outputFile_.open \/ ~w.isRecording_
    THEN [ok |-> FALSE, w |-> w, d |-> d]
    ELSE
    LET frame_count == w.frameNumber_
        s0 == [w |-> w, d |-> d]
        hasAudio == w.audioEnabled_ /\ w.audioBuffer_ # <<>>
        s1 == IF hasAudio THEN StopAudio(s0, io) ELSE s0
        index_offset == s1.w.bytesWritten_
        s2 == StopIndex(s1, 1)
        s3 == IF io = "indexTrailer" THEN s2
              ELSE Fwrite(s2, MAGIC_MIDX \o LE(4, frame_count) \o Zeros(8))
        s4 == [s3 EXCEPT !.w.bytesWritten_ = @ + 16]
        s5 == IF io = "headerPatch" THEN Fseek(s4, OFF_frame_count)
              ELSE IF io = "headerSeek"
              THEN Fwrite(s4, LE(4, frame_count) \o LE(8, index_offset))
              ELSE Fwrite(Fseek(s4, OFF_frame_count),
                          LE(4, frame_count) \o LE(8, index_offset))
    IN  IF hasAudio /\ io \in {"audioHeader", "audioData"}
        THEN [ok |-> FALSE, w |-> s1.w, d |-> s1.d]
        ELSE IF io = "indexEntry" /\ w.frameOffsets_ # <<>>
        THEN [ok |-> FALSE, w |-> s1.w, d |-> s1.d]
        ELSE [ok |-> TRUE, w |-> [s5.w EXCEPT !.isRecording_ = FALSE],
              d |-> s5.d]

\* VrawWriter::enableAudio.  The result is [ok, w].
enableAudio(w, sampleRate, channels) ==
    IF w.isRecording_ THEN [ok |-> FALSE, w |-> w]
    ELSE [ok |-> TRUE,
          w |-> [w EXCEPT !.audioEnabled_ = TRUE,
                          !.audioSampleRate_ = sampleRate,
                          !.audioChannels_ = channels,
                          !.audioStartTime_ = 0, !.audioBuffer_ = <<>>]]

\* submitAudio that keeps only the samples of the last call: a faulty
\* variant.
submitAudio_KeepsLastCall(w, samples, sampleCount, timestampUs) ==
    IF ~w.isRecording_ \/ ~w.audioEnabled_ \/ samples = <<>> \/ sampleCount = 0
    THEN [ok |-> FALSE, w |-> w]
    ELSE [ok |-> TRUE,
          w |-> [w EXCEPT
                   !.audioStartTime_ = IF @ = 0 THEN timestampUs ELSE @,
                   !.audioBuffer_ =
                       SubSeq(samples, 1, sampleCount * w.audioChannels_)]]

\* VrawWriter::submitAudio.  samples = <<>> is a null pointer; they hold
\* sampleCount * audioChannels_ values.  The result is [ok, w].
submitAudio(w, samples, sampleCount, timestampUs) ==
    IF ~w.isRecording_ \/ ~w.audioEnabled_ \/ samples = <<>> \/ sampleCount = 0
    THEN [ok |-> FALSE, w |-> w]
    ELSE [ok |-> TRUE,
          w |-> [w EXCEPT
                  !.audioStartTime_ = IF @ = 0 THEN timestampUs ELSE @,
                  !.audioBuffer_ =
                      @ \o SubSeq(samples, 1, sampleCount * w.audioChannels_)]]

\* VrawWriter::~VrawWriter: stop() if recording, then fclose.
\* The result is [w, d]; the instance is gone, w is a newly constructed one.
Destructor(w, d) ==
    LET r == IF w.isRecording_ THEN stop(w, d, "ok") ELSE [ok |-> FALSE, w |-> w, d |-> d]
    IN  [w |-> NewWriter, d |-> r.d]

(***************************************************************************)
(* VrawReader.  Every read is preceded by an absolute seek, so the         *)
(* stream's position is not part of the model's state.                     *)
(***************************************************************************)
\* FileHeader after memset(&fileHeader_, 0, sizeof(fileHeader_))
ZeroFileHeader ==
    [version |-> 0, width |-> 0, height |-> 0,
     nativeWidth |-> 0, nativeHeight |-> 0,
     bayerPattern |-> 0, encoding |-> 0, compression |-> 0,
     blackLevel |-> <<0, 0, 0, 0>>, whiteLevel |-> 0,
     frameCount |-> 0, indexOffset |-> 0,
     binningNum |-> 0, binningDen |-> 0, sensorOrientation |-> 0,
     hasTimecode |-> FALSE,
     timecode |-> [hours |-> 0, minutes |-> 0, seconds |-> 0, frames |-> 0,
                   fps |-> 0, dropFrame |-> FALSE, format |-> 0],
     hasAudio |-> FALSE, audioChannels |-> 0, audioBitDepth |-> 0,
     audioSampleRate |-> 0, audioOffset |-> 0, audioStartTimeUs |-> 0]

\* VrawReader::VrawReader()
NewReader ==
    [file_ |-> NULL, filePath_ |-> "", fileHeader_ |-> ZeroFileHeader,
     frameIndex_ |-> <<>>, isPacked_ |-> FALSE]

\* The little-endian field of n bytes at offset off of a raw structure.
Field(raw, off, n) == FromLE(SubSeq(raw, off + 1, off + n))

\* VrawReader::close
close(r) ==
    [r EXCEPT !.file_ = NULL, !.frameIndex_ = <<>>, !.filePath_ = ""]

\* readFileHeader: the fields every version of the header has.
FileHeaderCommon(h, raw) ==
    [h EXCEPT
        !.version = Field(raw, 4, 4),
        !.width = Field(raw, 8, 4), !.height = Field(raw, 12, 4),
        !.bayerPattern = raw[17], !.encoding = raw[18],
        !.compression = raw[19],
        !.blackLevel = [i \in 1..4 |-> Field(raw, 18 + 2 * i, 2)],
        !.whiteLevel = Field(raw, 28, 2),
        !.frameCount = Field(raw, OFF_frame_count, 4),
        !.indexOffset = Field(raw, OFF_index_offset, 8)]

\* readFileHeader: the branch of version >= 2.
FileHeaderV2(common, raw) ==
    [common EXCEPT
        !.nativeWidth = Field(raw, 44, 4),
        !.nativeHeight = Field(raw, 48, 4),
        !.binningNum = IF Field(raw, 52, 4) > 0 THEN Field(raw, 52, 4) ELSE 1,
        !.binningDen = IF Field(raw, 56, 4) > 0 THEN Field(raw, 56, 4) ELSE 1,
        !.hasAudio = raw[OFF_has_audio + 1] # 0,
        !.audioChannels = raw[62], !.audioBitDepth = raw[63],
        !.audioSampleRate = Field(raw, 64, 4),
        !.audioOffset = Field(raw, OFF_audio_offset, 8),
        !.audioStartTimeUs = Field(raw, OFF_audio_start_time_us, 8),
        !.hasTimecode = raw[85] # 0,
        !.timecode = IF raw[85] # 0
                     THEN [hours |-> raw[93], minutes |-> raw[94],
                           seconds |-> raw[95], frames |-> raw[96],
                           fps |-> raw[87], dropFrame |-> raw[88] # 0,
                           format |-> raw[86]]
                     ELSE @,
        !.sensorOrientation = Field(raw, 100, 4)]

\* readFileHeader: the branch of the older versions.
FileHeaderV1(common) ==
    [common EXCEPT
        !.nativeWidth = common.width, !.nativeHeight = common.height,
        !.binningNum = 1, !.binningDen = 1,
        !.hasAudio = FALSE, !.hasTimecode = FALSE,
        !.sensorOrientation = 0]

\* readFileHeader that accepts any magic tag: a faulty variant.
readFileHeader_AnyMagic(h, f) ==
    LET raw == ReadAt(f, 0, FILE_HEADER_SIZE)
    IN  IF raw = <<>> THEN [ok |-> FALSE, h |-> h]
        ELSE [ok |-> TRUE,
              h |-> IF Field(raw, 4, 4) >= 2
                    THEN FileHeaderV2(FileHeaderCommon(h, raw), raw)
                    ELSE FileHeaderV1(FileHeaderCommon(h, raw))]

\* readFileHeader that reads the fields of version 2 whatever the version:
\* a faulty variant.
readFileHeader_AlwaysV2(h, f) ==
    LET raw == ReadAt(f, 0, FILE_HEADER_SIZE)
        magic == SubSeq(raw, 1, 4)
    IN  IF raw = <<>> THEN [ok |-> FALSE, h |-> h]
        ELSE IF magic # MAGIC_VRAW /\ magic # MAGIC_MRAW
        THEN [ok |-> FALSE, h |-> h]
        ELSE [ok |-> TRUE, h |-> FileHeaderV2(FileHeaderCommon(h, raw), raw)]

\* VrawReader::readFileHeader on file contents f.  The result is [ok, h].
readFileHeader(h, f) ==
    LET raw == ReadAt(f, 0, FILE_HEADER_SIZE)
        magic == SubSeq(raw, 1, 4)
        version == Field(raw, 4, 4)
        common == FileHeaderCommon(h, raw)
    IN  IF raw = <<>> THEN [ok |-> FALSE, h |-> h]
        ELSE IF magic # MAGIC_VRAW /\ magic # MAGIC_MRAW
        THEN [ok |-> FALSE, h |-> h]
        ELSE [ok |-> TRUE,
              h |-> IF version >= 2 THEN FileHeaderV2(common, raw)
                    ELSE FileHeaderV1(common)]

\* The loop of readIndexTable: entries i.. of the table, <<-1>> on a short read.
RECURSIVE ReadIndexEntries(_, _, _, _)
ReadIndexEntries(f, indexOffset, frameCount, i) ==
    IF i >= frameCount THEN <<>>
    ELSE LET entry == ReadAt(f, indexOffset + 8 * i, 8)
             rest == ReadIndexEntries(f, indexOffset, frameCount, i + 1)
         IN  IF entry = <<>> \/ rest = <<-1>> THEN <<-1>>
             ELSE <<FromLE(entry)>> \o rest

\* VrawReader::readIndexTable.  The result is [ok, index].
readIndexTable(h, index, f) ==
    IF h.indexOffset = 0 \/ h.frameCount = 0 THEN [ok |-> FALSE, index |-> index]
    ELSE IF h.indexOffset >= Len(f) THEN [ok |-> FALSE, index |-> <<>>]
    ELSE LET entries == ReadIndexEntries(f, h.indexOffset, h.frameCount, 0)
         IN  IF entries = <<-1>> THEN [ok |-> FALSE, index |-> <<>>]
             ELSE [ok |-> TRUE, index |-> entries]

\* The payload size a frame header declares.
DataSize(fhRaw) ==
    IF Field(fhRaw, 12, 4) > 0 THEN Field(fhRaw, 12, 4) ELSE Field(fhRaw, 16, 4)

\* The loop of buildSequentialIndex without its check that the payload lies
\* within the file: a faulty variant.
RECURSIVE ScanFrames_NoPayloadCheck(_, _, _, _)
ScanFrames_NoPayloadCheck(f, frameCount, pos, count) ==
    LET fileLen == Len(f)
        fh == ReadAt(f, pos, FRAME_HEADER_SIZE)
        dataSize == DataSize(fh)
    IN  IF ~(pos + FRAME_HEADER_SIZE <= fileLen /\ count < frameCount) THEN <<>>
        ELSE IF fh = <<>> THEN <<>>
        ELSE IF dataSize <= 0 THEN <<>>
        ELSE <<pos>> \o ScanFrames_NoPayloadCheck(f, frameCount,
                            pos + FRAME_HEADER_SIZE + dataSize, count + 1)

\* The loop of buildSequentialIndex without its test of the declared frame
\* count: a faulty variant.
RECURSIVE ScanFrames_IgnoresCount(_, _, _, _)
ScanFrames_IgnoresCount(f, frameCount, pos, count) ==
    LET fileLen == Len(f)
        fh == ReadAt(f, pos, FRAME_HEADER_SIZE)
        dataSize == DataSize(fh)
    IN  IF ~(pos + FRAME_HEADER_SIZE <= fileLen) THEN <<>>
        ELSE IF fh = <<>> THEN <<>>
        ELSE IF dataSize <= 0 THEN <<>>
        ELSE IF dataSize > fileLen - pos - FRAME_HEADER_SIZE THEN <<>>
        ELSE <<pos>> \o ScanFrames_IgnoresCount(f, frameCount,
                                   pos + FRAME_HEADER_SIZE + dataSize, count + 1)

\* The loop of buildSequentialIndex, from position pos with count entries.
RECURSIVE ScanFrames(_, _, _, _)
ScanFrames(f, frameCount, pos, count) ==
    LET fileLen == Len(f)
        fh == ReadAt(f, pos, FRAME_HEADER_SIZE)
        dataSize == DataSize(fh)
    IN  IF ~(pos + FRAME_HEADER_SIZE <= fileLen /\ count < frameCount) THEN <<>>
        ELSE IF fh = <<>> THEN <<>>
        ELSE IF dataSize <= 0 THEN <<>>
        ELSE IF dataSize > fileLen - pos - FRAME_HEADER_SIZE THEN <<>>
        ELSE <<pos>> \o ScanFrames(f, frameCount,
                                   pos + FRAME_HEADER_SIZE + dataSize, count + 1)

\* VrawReader::buildSequentialIndex.  The result is [ok, index].
buildSequentialIndex(h, f) ==
    LET index == ScanFrames(f, h.frameCount, FILE_HEADER_SIZE, 0)
    IN  [ok |-> index # <<>>, index |-> index]

\* validateIndex that only rejects an empty index: a faulty variant.
validateIndex_AcceptsAll(index, f) ==
    index # <<>>

\* VrawReader::validateIndex
validateIndex(index, f) ==
    /\ index # <<>>
    /\ \A i \in 1..Len(index) :
          ~(index[i] < FILE_HEADER_SIZE \/ index[i] >= Len(f))

\* open that scans the file first and reads the index table only when the
\* scan finds nothing: a faulty variant.
open_ScanFirst(r, d, path) ==
    LET r0 == IF r.file_.open THEN close(r) ELSE r
        f == d[path]
        hdr == readFileHeader(r0.fileHeader_, f)
        r1 == [r0 EXCEPT !.file_ = Stream(0), !.filePath_ = path,
                         !.fileHeader_ = hdr.h]
        direct == readIndexTable(hdr.h, <<>>, f)
        scan == buildSequentialIndex(hdr.h, f)
    IN  IF path \notin DOMAIN d THEN [ok |-> FALSE, r |-> r0]
        ELSE IF ~hdr.ok THEN [ok |-> FALSE, r |-> close(r1)]
        ELSE IF scan.ok
        THEN [ok |-> TRUE, r |-> [r1 EXCEPT !.frameIndex_ = scan.index]]
        ELSE IF direct.ok /\ validateIndex(direct.index, f)
        THEN [ok |-> TRUE, r |-> [r1 EXCEPT !.frameIndex_ = direct.index]]
        ELSE [ok |-> FALSE, r |-> close(r1)]

\* VrawReader::open.  The result is [ok, r].
open(r, d, path) ==
    LET r0 == IF r.file_.open THEN close(r) ELSE r
        f == d[path]
        hdr == readFileHeader(r0.fileHeader_, f)
        r1 == [r0 EXCEPT !.file_ = Stream(0), !.filePath_ = path,
                         !.fileHeader_ = hdr.h]
        direct == readIndexTable(hdr.h, r1.frameIndex_, f)
        scan == buildSequentialIndex(hdr.h, f)
        first == IF direct.ok THEN direct ELSE scan
    IN  IF path \notin DOMAIN d THEN [ok |-> FALSE, r |-> r0]
        ELSE IF ~hdr.ok THEN [ok |-> FALSE, r |-> close(r1)]
        ELSE IF ~first.ok
        THEN [ok |-> FALSE, r |-> close([r1 EXCEPT !.frameIndex_ = first.index])]
        ELSE IF validateIndex(first.index, f)
        THEN [ok |-> TRUE, r |-> [r1 EXCEPT !.frameIndex_ = first.index]]
        ELSE IF ~scan.ok
        THEN [ok |-> FALSE, r |-> close([r1 EXCEPT !.frameIndex_ = scan.index])]
        ELSE [ok |-> TRUE, r |-> [r1 EXCEPT !.frameIndex_ = scan.index]]

\* The header of a default-constructed Frame: its fields are not initialised.
IndeterminateFrameHeader ==
    [timestampUs |-> -1, frameNumber |-> -1, compressedSize |-> -1,
     uncompressedSize |-> -1, iso |-> -1, exposureTimeMs |-> -1,
     whiteBalanceR |-> -1, whiteBalanceG |-> -1, whiteBalanceB |-> -1,
     focalLength |-> -1, aperture |-> -1, focusDistance |-> -1,
     dynamicBlackLevel |-> <<-1, -1, -1, -1>>]

\* Frame result; result.valid = false;
EmptyFrame ==
    [valid |-> FALSE, header |-> IndeterminateFrameHeader, pixelData |-> <<>>]

\* The FrameHeader copied from the 64 raw bytes of a SimpleFrameHeader.
ParseFrameHeader(fh) ==
    [timestampUs |-> Field(fh, 0, 8), frameNumber |-> Field(fh, 8, 4),
     compressedSize |-> Field(fh, 12, 4), uncompressedSize |-> Field(fh, 16, 4),
     iso |-> Field(fh, 20, 4), exposureTimeMs |-> Field(fh, 24, 4),
     whiteBalanceR |-> Field(fh, 28, 4), whiteBalanceG |-> Field(fh, 32, 4),
     whiteBalanceB |-> Field(fh, 36, 4),
     focalLength |-> Field(fh, 40, 4), aperture |-> Field(fh, 44, 4),
     focusDistance |-> Field(fh, 48, 4),
     dynamicBlackLevel |-> [i \in 1..4 |-> Field(fh, 50 + 2 * i, 2)]]

\* VrawReader::readFrame once frameNumber is known to be in the index.
ReadIndexedFrame(r, d, frameNumber) ==
    LET f == d[r.filePath_]
        frameOffset == r.frameIndex_[frameNumber + 1]
        fh == ReadAt(f, frameOffset, FRAME_HEADER_SIZE)
        header == ParseFrameHeader(fh)
        pixelCount == r.fileHeader_.width * r.fileHeader_.height
        fullFrameSize == pixelCount * 2
        isCompressed == header.compressedSize > 0
                        /\ r.fileHeader_.compression # NONE
        dataSize == DataSize(fh)
        isPacked == header.uncompressedSize > 0
                    /\ header.uncompressedSize < fullFrameSize
        rawData == ReadAt(f, frameOffset + FRAME_HEADER_SIZE, dataSize)
        decompress == isCompressed /\ header.uncompressedSize > 0
        lz == LZ4_decompress_safe(rawData, header.uncompressedSize)
        decompressedData == IF decompress THEN lz.dst ELSE <<>>
        frameData == IF decompress THEN decompressedData ELSE rawData
        is12Bit == Is12Bit(r.fileHeader_.encoding)
        pixelData == IF isPacked
                     THEN IF is12Bit THEN unpackFrame12Bit(frameData, pixelCount)
                          ELSE unpackFrame10Bit(frameData, pixelCount)
                     ELSE IF isCompressed THEN decompressedData
                     ELSE rawData
        early == EmptyFrame
        failed == [valid |-> FALSE, header |-> header, pixelData |-> <<>>]
    IN  IF fh = <<>> THEN [frame |-> early, r |-> r]
        ELSE IF dataSize = 0 THEN [frame |-> failed, r |-> r]
        ELSE IF rawData = <<>> THEN [frame |-> failed, r |-> r]
        ELSE IF decompress /\ lz.n < 0 THEN [frame |-> failed, r |-> r]
        ELSE [frame |-> [valid |-> TRUE, header |-> header,
                         pixelData |-> pixelData],
              r |-> [r EXCEPT !.isPacked_ = isPacked]]

\* readFrame that closes the reader when a frame of the index cannot be
\* read: a faulty variant.
readFrame_FailureCloses(r, d, frameNumber) ==
    IF ~r.file_.open \/ frameNumber >= Len(r.frameIndex_)
    THEN [frame |-> EmptyFrame, r |-> r]
    ELSE IF ReadIndexedFrame(r, d, frameNumber).frame.valid
    THEN ReadIndexedFrame(r, d, frameNumber)
    ELSE [frame |-> ReadIndexedFrame(r, d, frameNumber).frame, r |-> close(r)]

\* readFrame that closes the reader when the index is out of range: a faulty
\* variant.
readFrame_BadIndexCloses(r, d, frameNumber) ==
    IF ~r.file_.open \/ frameNumber >= Len(r.frameIndex_)
    THEN [frame |-> EmptyFrame, r |-> close(r)]
    ELSE ReadIndexedFrame(r, d, frameNumber)

\* VrawReader::readFrame.  The result is [frame, r].
readFrame(r, d, frameNumber) ==
    IF ~r.file_.open \/ frameNumber >= Len(r.frameIndex_)
    THEN [frame |-> EmptyFrame, r |-> r]
    ELSE ReadIndexedFrame(r, d, frameNumber)

\* VrawReader::readFrameHeader.  header is the caller's FrameHeader; the
\* result is [ok, header].
readFrameHeader(r, d, frameNumber, header) ==
    IF ~r.file_.open \/ frameNumber >= Len(r.frameIndex_)
    THEN [ok |-> FALSE, header |-> header]
    ELSE LET fh == ReadAt(d[r.filePath_], r.frameIndex_[frameNumber + 1],
                          FRAME_HEADER_SIZE)
         IN  IF fh = <<>> THEN [ok |-> FALSE, header |-> header]
             ELSE [ok |-> TRUE, header |-> ParseFrameHeader(fh)]

\* A default-constructed AudioHeader: its fields are not initialised.
IndeterminateAudioHeader ==
    [sampleRate |-> -1, channels |-> -1, bitDepth |-> -1, sampleCount |-> -1,
     startTimestampUs |-> -1]

\* readAudio that does not compare the audio block's magic tag: a faulty
\* variant.
readAudio_NoMagicCheck(r, d, header, samples) ==
    LET f == d[r.filePath_]
        ash == ReadAt(f, r.fileHeader_.audioOffset, AUDIO_HEADER_SIZE)
        n == Field(ash, 16, 8) * Field(ash, 12, 2)
        data == ReadAt(f, r.fileHeader_.audioOffset + AUDIO_HEADER_SIZE, 2 * n)
    IN  IF ~r.file_.open \/ ~r.fileHeader_.hasAudio
           \/ r.fileHeader_.audioOffset = 0 \/ ash = <<>>
        THEN [ok |-> FALSE, header |-> header, samples |-> samples]
        ELSE [ok |-> data # <<>>, header |-> header,
              samples |-> BytesToSamples(data)]

\* VrawReader::readAudio with the caller's header and samples.  The result
\* is [ok, header, samples]; samples are 16-bit patterns.  (A sample count
\* beyond the file's length cannot be read whatever the channel count.)
readAudio(r, d, header, samples) ==
    LET f == d[r.filePath_]
        ash == ReadAt(f, r.fileHeader_.audioOffset, AUDIO_HEADER_SIZE)
        channels == Field(ash, 12, 2)
        sample_count == Field(ash, 16, 8)
        filled == [sampleRate |-> Field(ash, 8, 4), channels |-> channels,
                   bitDepth |-> Field(ash, 14, 2),
                   sampleCount |-> sample_count,
                   startTimestampUs |-> Field(ash, 24, 8)]
        totalSamples == IF channels = 0 THEN 0
                        ELSE IF sample_count > Len(f) THEN Huge
                        ELSE sample_count * channels
        data == IF totalSamples = Huge THEN <<>>
                ELSE ReadAt(f, r.fileHeader_.audioOffset + AUDIO_HEADER_SIZE,
                            2 * totalSamples)
    IN  IF ~r.file_.open \/ ~r.fileHeader_.hasAudio
           \/ r.fileHeader_.audioOffset = 0
        THEN [ok |-> FALSE, header |-> header, samples |-> samples]
        ELSE IF ash = <<>>
        THEN [ok |-> FALSE, header |-> header, samples |-> samples]
        ELSE IF SubSeq(ash, 1, 4) # MAGIC_MAUD
        THEN [ok |-> FALSE, header |-> header, samples |-> samples]
        ELSE IF totalSamples > 0 /\ data = <<>>
        THEN [ok |-> FALSE, header |-> filled, samples |-> <<>>]
        ELSE [ok |-> TRUE, header |-> filled, samples |-> BytesToSamples(data)]

(***************************************************************************)
(* Inputs.                                                                 *)
(***************************************************************************)
Encodings == {LINEAR_10BIT, LOG2_10BIT, LOG2_12BIT, LINEAR_12BIT}

MaxCode(encoding) == IF Is12Bit(encoding) THEN 4095 ELSE 1023

\* Frame sizes: width * height from 1 to MaxPixels, and the rejected zeros.
Dims == {wh \in (0..MaxPixels) \X (0..2) : wh[1] * wh[2] <= MaxPixels}

InitArgs ==
    [width : 0..MaxPixels, height : 0..2, outputPath : {"", OutPath},
     encoding : Encodings, usePacking : BOOLEAN, useCompression : BOOLEAN,
     bayerPattern : {0}, blackLevel : {<<>>}, whiteLevel : {1023, 4095},
     sensorOrientation : {0}, nativeWidth : {0}, nativeHeight : {0},
     now : {<<12, 34, 56>>}]

\* The arguments the model calls init with: the sizes of Dims; an empty path
\* only with the smallest frame.
InitCalls ==
    {a \in InitArgs :
        /\ <<a.width, a.height>> \in Dims
        /\ a.whiteLevel = MaxCode(a.encoding)
        /\ (a.outputPath = "" => a.width = 1 /\ a.height = 1)
        /\ (a.width = 0 \/ a.height = 0 =>
               a.encoding = LINEAR_12BIT /\ ~a.usePacking /\ ~a.useCompression)}

\* Sample arrays of n pixels within the bit range of the encoding: a flat
\* frame (which the compressor shrinks) and a ramp (which it does not).
Flat(n) == [i \in 1..n |-> 0]
Ramp(n, maxCode) == [i \in 1..n |-> (i * (maxCode \div 3)) % (maxCode + 1)]

\* The data pointers submitFrame is called with: <<>> is the null pointer.
FrameInputs(w) ==
    LET n == Max(1, w.width_ * w.height_)
    IN  {<<>>, Flat(n), Ramp(n, MaxCode(w.encoding_))}

Timestamps == {33333}
WhiteBalances == {<<F32_1, F32_1, F32_1>>}
DynamicBlackLevels == {<<>>}

\* enableAudio arguments, and the buffers of submitAudio (<<>> is null).
AudioFormats == {<<48000, 1>>}
AudioInputs == {<<>>, <<1, 65535>>}

(***************************************************************************)
(* History of the file at OutPath, and of the calls made (not program      *)
(* state: no operation reads it).                                          *)
(***************************************************************************)
NoArgs ==
    [width |-> 0, height |-> 0, outputPath |-> "", encoding |-> LINEAR_12BIT,
     usePacking |-> FALSE, useCompression |-> FALSE, bayerPattern |-> 0,
     blackLevel |-> <<>>, whiteLevel |-> 0, sensorOrientation |-> 0,
     nativeWidth |-> 0, nativeHeight |-> 0, now |-> <<0, 0, 0>>]

NewGhost ==
    [inits |-> 0,          \* files created by init
     cfg |-> NoArgs,       \* the arguments of the init that created the file
     sessions |-> 0,       \* start() calls accepted on the file's writer
     stops |-> 0,          \* stop() calls that succeeded on the file's writer
     finalized |-> FALSE,  \* stop() has succeeded on the current writer instance
     frames |-> <<>>,      \* accepted frames: [data, packed, timestampUs,
                           \* whiteBalance, blackLevel, offset, stored]
     ioFailures |-> 0,     \* writer calls made with a failing I/O call
     audioCalls |-> 0,     \* submitAudio calls accepted
     audio |-> <<>>,       \* the samples of the accepted submitAudio calls
     audioFormat |-> <<0, 0>>,  \* sample rate and channels they were accepted with
     crashed |-> FALSE,    \* the writer's process died with the file open
     cutAt |-> -1,         \* the length the file was truncated to, if it was
     damagedAt |-> -1,     \* the offset of the byte that was overwritten, if any
     badReads |-> {}]      \* frames whose read failed since the reader's open

NoFrame ==
    [valid |-> FALSE, header |-> IndeterminateFrameHeader, pixelData |-> <<>>]

Ret(op, ok, arg) == [op |-> op, ok |-> ok, arg |-> arg, frame |-> NoFrame]

Init ==
    /\ writer = NewWriter
    /\ reader = NewReader
    /\ disk = [p \in {} |-> <<>>]
    /\ ret = Ret("none", TRUE, 0)
    /\ ghost = NewGhost

(***************************************************************************)
(* Calls on the writer.  A writer and a reader do not have the same file   *)
(* open at the same time (the library leaves that undefined).              *)
(***************************************************************************)
WriterInit(a, io) ==
    /\ ~reader.file_.open
    /\ ~writer.outputFile_.open => ghost.inits < MaxInits
    /\ \E r \in {init(writer, disk, a, io)} :
          /\ writer' = r.w
           /\ disk' = r.d
           /\ ret' = Ret("init", r.ok, 0)
           /\ ghost' = IF r.d # disk
                       THEN [NewGhost EXCEPT !.inits = ghost.inits + 1, !.cfg = a]
                       ELSE ghost
    /\ UNCHANGED reader

WriterStart ==
    /\ writer.outputFile_.open /\ ~writer.isRecording_
          => ghost.sessions < MaxSessions
    /\ \E r \in {start(writer)} :
          /\ writer' = r.w
           /\ ret' = Ret("start", r.ok, 0)
           /\ ghost' = IF r.ok THEN [ghost EXCEPT !.sessions = @ + 1] ELSE ghost
    /\ UNCHANGED <<reader, disk>>

WriterSubmitFrame(data, timestampUs, wb, dynamicBlackLevel, io) ==
    /\ writer.isRecording_ => Len(ghost.frames) < MaxFrames
    /\ \E r \in {submitFrame(writer, disk, data, timestampUs, wb,
                            dynamicBlackLevel, io)} :
          /\ writer' = r.w
           /\ disk' = r.d
           /\ ret' = Ret("submitFrame", r.ok, io)
           /\ ghost' = IF r.ok
                       THEN [ghost EXCEPT !.frames = Append(@,
                               [data |-> data,
                                packed |-> FramePipeline(writer, data,
                                                         io).packed,
                                timestampUs |-> timestampUs,
                                whiteBalance |-> wb,
                                blackLevel |->
                                    IF dynamicBlackLevel # <<>>
                                    THEN dynamicBlackLevel
                                    ELSE writer.blackLevel_,
                                offset |-> writer.bytesWritten_,
                                stored |-> r.w.bytesWritten_
                                           - writer.bytesWritten_
                                           - FRAME_HEADER_SIZE])]
                       ELSE IF io # "ok" /\ r.w # writer
                       THEN [ghost EXCEPT !.ioFailures = @ + 1]
                       ELSE ghost
    /\ UNCHANGED reader

WriterStop(io) ==
    /\ \E r \in {stop(writer, disk, io)} :
          /\ writer' = r.w
           /\ disk' = r.d
           /\ ret' = Ret("stop", r.ok, io)
           /\ ghost' = IF r.ok
                       THEN [ghost EXCEPT
                               !.stops = @ + 1, !.finalized = TRUE,
                               !.ioFailures = IF io # "ok" THEN @ + 1 ELSE @]
                       ELSE IF io # "ok" /\ writer.isRecording_
                       THEN [ghost EXCEPT !.ioFailures = @ + 1]
                       ELSE ghost
    /\ UNCHANGED reader

WriterEnableAudio(sampleRate, channels) ==
    /\ \E r \in {enableAudio(writer, sampleRate, channels)} :
          /\ writer' = r.w
           /\ ret' = Ret("enableAudio", r.ok, 0)
    /\ UNCHANGED <<reader, disk, ghost>>

SubmitAudioCall(samples, sampleCount, timestampUs) ==
    /\ \E r \in {submitAudio(writer, samples, sampleCount, timestampUs)} :
          /\ writer' = r.w
           /\ ret' = Ret("submitAudio", r.ok, 0)
           /\ ghost' = IF r.ok
                       THEN [ghost EXCEPT
                               !.audioCalls = @ + 1,
                               !.audioFormat = <<writer.audioSampleRate_,
                                                 writer.audioChannels_>>,
                               !.audio = @ \o SubSeq(samples, 1,
                                           sampleCount * writer.audioChannels_)]
                       ELSE ghost
    /\ UNCHANGED <<reader, disk>>

WriterSubmitAudio(samples, sampleCount, timestampUs) ==
    /\ writer.isRecording_ => ghost.audioCalls < MaxAudioCalls
    /\ SubmitAudioCall(samples, sampleCount, timestampUs)

\* The writer goes out of scope: its destructor runs.
WriterDestroy ==
    /\ writer # NewWriter
    /\ \E r \in {Destructor(writer, disk)} :
          /\ writer' = r.w
           /\ disk' = r.d
           /\ ghost' = [ghost EXCEPT
                          !.stops = IF writer.isRecording_ THEN @ + 1 ELSE @,
                          !.finalized = FALSE]
    /\ ret' = Ret("~VrawWriter", TRUE, 0)
    /\ UNCHANGED reader

\* The writer's process dies while the file is open: no destructor runs and
\* the file keeps the bytes written so far.
WriterCrash ==
    /\ writer.outputFile_.open
    /\ writer' = NewWriter
    /\ ghost' = [ghost EXCEPT !.crashed = TRUE, !.finalized = FALSE]
    /\ ret' = Ret("crash", TRUE, 0)
    /\ UNCHANGED <<reader, disk>>

(***************************************************************************)
(* Calls on the reader.                                                    *)
(***************************************************************************)
ReaderOpen(path) ==
    /\ ~writer.outputFile_.open
    /\ \E r \in {open(reader, disk, path)} :
          /\ reader' = r.r
           /\ ret' = Ret("open", r.ok, path)
    /\ ghost' = [ghost EXCEPT !.badReads = {}]
    /\ UNCHANGED <<writer, disk>>

ReaderReadFrame(frameNumber) ==
    /\ \E r \in {readFrame(reader, disk, frameNumber)} :
          /\ reader' = r.r
           /\ ret' = [op |-> "readFrame", ok |-> r.frame.valid,
                      arg |-> frameNumber, frame |-> r.frame]
           /\ ghost' = IF ~r.frame.valid /\ reader.file_.open
                          /\ frameNumber < Len(reader.frameIndex_)
                       THEN [ghost EXCEPT !.badReads = @ \cup {frameNumber}]
                       ELSE ghost
    /\ UNCHANGED <<writer, disk>>

ReaderReadFrameHeader(frameNumber) ==
    /\ \E r \in {readFrameHeader(reader, disk, frameNumber,
                                IndeterminateFrameHeader)} :
          ret' = [op |-> "readFrameHeader", ok |-> r.ok, arg |-> frameNumber,
                  frame |-> [valid |-> r.ok, header |-> r.header,
                             pixelData |-> <<>>]]
    /\ UNCHANGED <<writer, reader, disk, ghost>>

ReaderReadAudio ==
    /\ \E r \in {readAudio(reader, disk, IndeterminateAudioHeader, <<>>)} :
          ret' = Ret("readAudio", r.ok,
                     [header |-> r.header, samples |-> r.samples])
    /\ UNCHANGED <<writer, reader, disk, ghost>>

ReaderClose ==
    /\ reader' = close(reader)
    /\ ret' = Ret("close", TRUE, 0)
    /\ ghost' = [ghost EXCEPT !.badReads = {}]
    /\ UNCHANGED <<writer, disk>>

(***************************************************************************)
(* The environment: a closed file is truncated, or one of its bytes is     *)
(* overwritten.                                                            *)
(***************************************************************************)
FileAtRest ==
    /\ OutPath \in DOMAIN disk
    /\ ~writer.outputFile_.open
    /\ ~reader.file_.open

Truncate(n) ==
    /\ FileAtRest
    /\ ghost.cutAt = -1 /\ ghost.damagedAt = -1
    /\ n < Len(disk[OutPath])
    /\ disk' = [disk EXCEPT ![OutPath] = SubSeq(@, 1, n)]
    /\ ghost' = [ghost EXCEPT !.cutAt = n]
    /\ ret' = Ret("truncate", TRUE, n)
    /\ UNCHANGED <<writer, reader>>

Corrupt(off, byte) ==
    /\ FileAtRest
    /\ ghost.cutAt = -1 /\ ghost.damagedAt = -1
    /\ off < Len(disk[OutPath])
    /\ disk[OutPath][off + 1] # byte
    /\ disk' = [disk EXCEPT ![OutPath][off + 1] = byte]
    /\ ghost' = [ghost EXCEPT !.damagedAt = off]
    /\ ret' = Ret("corrupt", TRUE, off)
    /\ UNCHANGED <<writer, reader>>

\* The bytes of f with those at offset off replaced (the length is kept).
Patch(f, off, bytes) ==
    [i \in 1..Len(f) |-> IF i > off /\ i <= off + Len(bytes)
                         THEN bytes[i - off] ELSE f[i]]

\* A field of the file at rest is overwritten.
Overwrite(off, bytes) ==
    /\ FileAtRest
    /\ ghost.cutAt = -1 /\ ghost.damagedAt = -1
    /\ off + Len(bytes) <= Len(disk[OutPath])
    /\ ReadAt(disk[OutPath], off, Len(bytes)) # bytes
    /\ disk' = [disk EXCEPT ![OutPath] = Patch(@, off, bytes)]
    /\ ghost' = [ghost EXCEPT !.damagedAt = off]
    /\ ret' = Ret("overwrite", TRUE, off)
    /\ UNCHANGED <<writer, reader>>

\* The file at rest is one of another writer of the format: it carries that
\* writer's magic tag and version in place of this writer's.
Relabel(magic, version) ==
    /\ FileAtRest
    /\ ReadAt(disk[OutPath], 0, 8) = MAGIC_VRAW \o LE(4, 2)
    /\ magic \o LE(4, version) # MAGIC_VRAW \o LE(4, 2)
    /\ disk' = [disk EXCEPT ![OutPath] = Patch(@, 0, magic \o LE(4, version))]
    /\ ret' = Ret("relabel", TRUE, version)
    /\ UNCHANGED <<writer, reader, ghost>>

(***************************************************************************)
(* Calls made as the library documents them: init once on a new writer,    *)
(* start once, frames while recording, stop, and then the destructor.      *)
(***************************************************************************)
ProperInit(a) ==
    /\ writer = NewWriter /\ ghost.inits = 0
    /\ a.width > 0 /\ a.height > 0 /\ a.outputPath # ""
    /\ WriterInit(a, "ok")

ProperEnableAudio(sampleRate, channels) ==
    /\ writer.outputFile_.open /\ ~writer.isRecording_ /\ ghost.sessions = 0
    /\ ~writer.audioEnabled_
    /\ WriterEnableAudio(sampleRate, channels)

ProperStart ==
    /\ writer.outputFile_.open /\ ~writer.isRecording_ /\ ghost.sessions = 0
    /\ WriterStart

ProperSubmitFrame(data, timestampUs, wb, dynamicBlackLevel) ==
    /\ writer.isRecording_ /\ data # <<>>
    /\ WriterSubmitFrame(data, timestampUs, wb, dynamicBlackLevel, "ok")

ProperSubmitAudio(samples, sampleCount, timestampUs) ==
    /\ writer.isRecording_ /\ writer.audioEnabled_ /\ samples # <<>>
    /\ WriterSubmitAudio(samples, sampleCount, timestampUs)

ProperStop ==
    /\ writer.isRecording_
    /\ WriterStop("ok")

ProperDestroy ==
    /\ writer.outputFile_.open
    /\ WriterDestroy

(***************************************************************************)
(* Specifications.                                                         *)
(***************************************************************************)
\* Spec: one file is written as documented and then read, in any order of
\* reader calls.
ProperWriter ==
    \/ \E a \in InitCalls : ProperInit(a)
    \/ ProperStart
    \/ \E data \in FrameInputs(writer), t \in Timestamps, wb \in WhiteBalances,
          dbl \in DynamicBlackLevels : ProperSubmitFrame(data, t, wb, dbl)
    \/ ProperStop
    \/ ProperDestroy

ReaderCalls ==
    \/ \E path \in {OutPath, MissingPath} : ReaderOpen(path)
    \/ \E i \in 0..MaxFrames : ReaderReadFrame(i)
    \/ ReaderClose

Next == ProperWriter \/ ReaderCalls

Spec == Init /\ [][Next]_vars

\* SpecWriter: the writer is called in any order, with valid and with
\* rejected arguments; its frames have one pixel, of a linear or of a log
\* encoding, stored as they are or packed and compressed.
SmallInitCalls ==
    {a \in InitCalls : /\ a.width * a.height <= 1
                        /\ a.encoding \in {LINEAR_12BIT, LOG2_10BIT}
                        /\ a.usePacking = a.useCompression}

NextWriter ==
    \/ \E a \in SmallInitCalls : WriterInit(a, "ok")
    \/ WriterStart
    \/ \E data \in {<<>>, Ramp(1, MaxCode(writer.encoding_))}, t \in Timestamps,
          wb \in WhiteBalances, dbl \in DynamicBlackLevels :
          WriterSubmitFrame(data, t, wb, dbl, "ok")
    \/ WriterStop("ok")
    \/ \E fmt \in AudioFormats : WriterEnableAudio(fmt[1], fmt[2])
    \/ \E samples \in AudioInputs :
          WriterSubmitAudio(samples, Len(samples), 0)
    \/ WriterDestroy

SpecWriter == Init /\ [][NextWriter]_vars

\* SpecRecovery: one file of two-pixel 12-bit frames is written as
\* documented, with or without audio, and finalized or left behind by a
\* crash; it may then be cut short; a reader opens it.
RecoveryInitCalls ==
    {a \in InitCalls : a.width = 2 /\ a.height = 1 /\ a.outputPath = OutPath
                        /\ a.encoding = LINEAR_12BIT}

\* Where the file is cut: some places inside the file header, and every
\* place after it.
TruncationPoints ==
    IF OutPath \in DOMAIN disk
    THEN {n \in 0..(Len(disk[OutPath]) - 1) :
             n >= FILE_HEADER_SIZE \/ n \in {0, 3, OFF_index_offset}}
    ELSE {}

NextRecovery ==
    \/ \E a \in RecoveryInitCalls : ProperInit(a)
    \/ \E fmt \in AudioFormats : ProperEnableAudio(fmt[1], fmt[2])
    \/ ProperStart
    \/ \E t \in Timestamps, wb \in WhiteBalances, dbl \in DynamicBlackLevels :
          ProperSubmitFrame(Ramp(2, MaxCode(LINEAR_12BIT)), t, wb, dbl)
    \/ \E samples \in AudioInputs :
          ProperSubmitAudio(samples, Len(samples), 0)
    \/ ProperStop
    \/ ProperDestroy
    \/ WriterCrash
    \/ \E n \in TruncationPoints : Truncate(n)
    \/ \E path \in {OutPath, MissingPath} : ReaderOpen(path)
    \/ ReaderClose

SpecRecovery == Init /\ [][NextRecovery]_vars

\* SpecCorrupt: one file of two-pixel 12-bit frames is written as
\* documented; one byte of a frame's size fields or of its payload may then
\* be overwritten; a reader opens the file and reads its frames in any order.
CorruptInitCalls == RecoveryInitCalls

\* The bytes that are overwritten: of each frame, the low bytes of
\* compressed_size and uncompressed_size and the first two payload bytes.
CorruptPoints ==
    {ghost.frames[i].offset + k :
        i \in 1..Len(ghost.frames), k \in {12, 16, FRAME_HEADER_SIZE,
                                           FRAME_HEADER_SIZE + 1}}

CorruptBytes == {0, 2, 3, 7, 200}

NextCorrupt ==
    \/ \E a \in CorruptInitCalls : ProperInit(a)
    \/ ProperStart
    \/ \E data \in FrameInputs(writer), t \in Timestamps, wb \in WhiteBalances,
          dbl \in DynamicBlackLevels : ProperSubmitFrame(data, t, wb, dbl)
    \/ ProperStop
    \/ ProperDestroy
    \/ \E off \in CorruptPoints, byte \in CorruptBytes : Corrupt(off, byte)
    \/ ReaderOpen(OutPath)
    \/ \E i \in 0..MaxFrames : ReaderReadFrame(i)
    \/ ReaderClose

SpecCorrupt == Init /\ [][NextCorrupt]_vars

\* SpecPack: an array of samples within the bit range is packed by the
\* writer's packer and unpacked by the reader's unpacker, with the same
\* pixel count and the packer's byte count.
PackSamples(bits) ==
    {0, 1, (Pow2(bits) - 1) \div 3, 2 * ((Pow2(bits) - 1) \div 3),
     Pow2(bits) - 1}

PackInputs(bits) ==
    UNION {[1..n -> PackSamples(bits)] : n \in 1..MaxPackLen}

InitPack ==
    /\ writer = NewWriter
    /\ reader = NewReader
    /\ disk = [p \in {} |-> <<>>]
    /\ ghost = NewGhost
    /\ \E bits \in {10, 12} : \E src \in PackInputs(bits) :
          ret = Ret("samples", TRUE, [bits |-> bits, src |-> src])

PackFrame ==
    /\ ret.op = "samples"
    /\ ret' = Ret("packFrame", TRUE,
                  [bits |-> ret.arg.bits, src |-> ret.arg.src,
                   packed |-> IF ret.arg.bits = 12
                              THEN packFrame12Bit(ret.arg.src)
                              ELSE packFrame10Bit(ret.arg.src)])
    /\ UNCHANGED <<writer, reader, disk, ghost>>

UnpackFrame ==
    /\ ret.op = "packFrame"
    /\ ret' = Ret("unpackFrame", TRUE,
                  [bits |-> ret.arg.bits, src |-> ret.arg.src,
                   packed |-> ret.arg.packed,
                   dst |-> IF ret.arg.bits = 12
                           THEN unpackFrame12Bit(ret.arg.packed,
                                                 Len(ret.arg.src))
                           ELSE unpackFrame10Bit(ret.arg.packed,
                                                 Len(ret.arg.src))])
    /\ UNCHANGED <<writer, reader, disk, ghost>>

NextPack == PackFrame \/ UnpackFrame

SpecPack == InitPack /\ [][NextPack]_vars

\* SpecAudio: one file of one-pixel frames is written as documented, with
\* mono or stereo audio submitted in up to MaxAudioBlocks calls; at rest it
\* may be retagged MRAW and one audio field of it may be overwritten; a
\* reader opens it and reads its audio.
AudioInitCalls ==
    {a \in InitCalls : /\ a.width = 1 /\ a.height = 1 /\ a.outputPath = OutPath
                        /\ a.encoding = LINEAR_12BIT
                        /\ ~a.usePacking /\ ~a.useCompression}

RecordingFormats == {<<48000, 1>>, <<44100, 2>>}

\* Interleaved sample buffers: whole frames of one or of two channels.
AudioBlocks == {<<1, 65535>>, <<32768, 2, 3, 4>>}

\* The fields overwritten: the header's audio flag and audio offset, and
\* each byte of the audio block's magic tag.
AudioDamage ==
    IF OutPath \in DOMAIN disk /\ Len(disk[OutPath]) >= FILE_HEADER_SIZE
    THEN {<<OFF_has_audio, <<0>>>>, <<OFF_audio_offset, Zeros(8)>>}
         \cup {<<Field(disk[OutPath], OFF_audio_offset, 8) + k, <<0>>>> :
                  k \in 0..3}
    ELSE {}

NextAudio ==
    \/ \E a \in AudioInitCalls : ProperInit(a)
    \/ \E fmt \in RecordingFormats : ProperEnableAudio(fmt[1], fmt[2])
    \/ ProperStart
    \/ \E t \in Timestamps, wb \in WhiteBalances, dbl \in DynamicBlackLevels :
          ProperSubmitFrame(Ramp(1, MaxCode(LINEAR_12BIT)), t, wb, dbl)
    \/ \E samples \in AudioBlocks, t \in {0, 7} :
          /\ writer.isRecording_ /\ writer.audioEnabled_
          /\ ghost.audioCalls < MaxAudioBlocks
          /\ SubmitAudioCall(samples, Len(samples) \div writer.audioChannels_, t)
    \/ ProperStop
    \/ ProperDestroy
    \/ Relabel(MAGIC_MRAW, 2)
    \/ \E dmg \in AudioDamage : Overwrite(dmg[1], dmg[2])
    \/ ReaderOpen(OutPath)
    \/ ReaderReadAudio
    \/ ReaderClose

SpecAudio == Init /\ [][NextAudio]_vars

\* SpecHeader: one file of binned, rotated one-pixel frames is written as
\* documented, with or without audio; at rest it may be given the magic tag
\* and version of another writer, or have a byte of its magic tag
\* overwritten; a reader opens it, before and after.
HeaderInitCalls ==
    {[a EXCEPT !.nativeWidth = 2, !.nativeHeight = 2,
               !.sensorOrientation = 90] : a \in AudioInitCalls}

HeaderLabels == {MAGIC_VRAW, MAGIC_MRAW} \X {0, 1, 2, 3}

NextHeader ==
    \/ \E a \in HeaderInitCalls : ProperInit(a)
    \/ \E fmt \in AudioFormats : ProperEnableAudio(fmt[1], fmt[2])
    \/ ProperStart
    \/ \E t \in Timestamps, wb \in WhiteBalances, dbl \in DynamicBlackLevels :
          ProperSubmitFrame(Ramp(1, MaxCode(LINEAR_12BIT)), t, wb, dbl)
    \/ \E samples \in AudioInputs :
          ProperSubmitAudio(samples, Len(samples), 7)
    \/ ProperStop
    \/ ProperDestroy
    \/ \E l \in HeaderLabels : Relabel(l[1], l[2])
    \/ \E off \in 0..3, byte \in {0, 77} : Corrupt(off, byte)
    \/ ReaderOpen(OutPath)
    \/ ReaderClose

SpecHeader == Init /\ [][NextHeader]_vars

\* SpecIndex: one file of one-pixel frames is written as documented and
\* finalized, or left behind by a crash; at rest one entry of its index
\* table may be overwritten, or the file cut within a frame or within the
\* table; a reader opens it.
IndexOffsetOfFile ==
    IF OutPath \in DOMAIN disk /\ Len(disk[OutPath]) >= FILE_HEADER_SIZE
    THEN Field(disk[OutPath], OFF_index_offset, 8)
    ELSE 0

\* The entries overwritten, and what with: offsets below the header's end,
\* inside the frames, at the end of the file and far beyond it.
IndexDamage ==
    IF IndexOffsetOfFile = 0 THEN {}
    ELSE {<<IndexOffsetOfFile + 8 * (i - 1), LE(8, v)>> :
             i \in 1..Len(ghost.frames),
             v \in {0, FILE_HEADER_SIZE - 1, FILE_HEADER_SIZE,
                    FILE_HEADER_SIZE + 1, Len(disk[OutPath]) - 1,
                    Len(disk[OutPath]), Pow2(24)}}

IndexCuts ==
    {ghost.frames[i].offset + k :
        i \in 1..Len(ghost.frames), k \in {0, 1, FRAME_HEADER_SIZE + 1}}
    \cup (IF IndexOffsetOfFile = 0 THEN {}
          ELSE {IndexOffsetOfFile + k : k \in {0, 7, 8, 15, 16}})

NextIndex ==
    \/ \E a \in AudioInitCalls : ProperInit(a)
    \/ ProperStart
    \/ \E t \in Timestamps, wb \in WhiteBalances, dbl \in DynamicBlackLevels :
          ProperSubmitFrame(Ramp(1, MaxCode(LINEAR_12BIT)), t, wb, dbl)
    \/ ProperStop
    \/ ProperDestroy
    \/ WriterCrash
    \/ \E dmg \in IndexDamage : Overwrite(dmg[1], dmg[2])
    \/ \E n \in IndexCuts : Truncate(n)
    \/ ReaderOpen(OutPath)
    \/ \E i \in 0..MaxFrames : ReaderReadFrame(i)
    \/ ReaderClose

SpecIndex == Init /\ [][NextIndex]_vars

\* SpecIO: one file of one-pixel frames, with or without audio, is written
\* as documented while an fwrite or fseek of submitFrame or of stop() may
\* fail; a call that reported failure may be made again.  The frames carry
\* a timestamp that grows with each call, unequal white balance values and,
\* or not, black levels of their own.  A reader opens the file and reads
\* its frames and their headers.
SubmitFailures == {"header", "payload"}

StopFailures ==
    {"audioHeader", "audioData", "audioPatch", "indexEntry", "indexTrailer",
     "headerSeek", "headerPatch"}

NextIO ==
    \/ \E a \in AudioInitCalls : ProperInit(a)
    \/ \E fmt \in AudioFormats : ProperEnableAudio(fmt[1], fmt[2])
    \/ ProperStart
    \/ \E io \in {"ok"} \cup SubmitFailures, dbl \in {<<>>, <<60, 61, 62, 63>>} :
          /\ io # "ok" => ghost.ioFailures < MaxIOFailures
          /\ writer.isRecording_
          /\ WriterSubmitFrame(Ramp(1, MaxCode(LINEAR_12BIT)),
                               33333 * (writer.frameNumber_ + 1),
                               <<F32_1, F32_100, F32_16_67>>, dbl, io)
    \/ \E samples \in AudioInputs :
          ProperSubmitAudio(samples, Len(samples), 7)
    \/ \E io \in {"ok"} \cup StopFailures :
          /\ io # "ok" => ghost.ioFailures < MaxIOFailures
          /\ writer.isRecording_
          /\ WriterStop(io)
    \/ ProperDestroy
    \/ ReaderOpen(OutPath)
    \/ \E i \in 0..MaxFrames : ReaderReadFrame(i)
    \/ \E i \in 0..MaxFrames : ReaderReadFrameHeader(i)
    \/ ReaderClose

SpecIO == Init /\ [][NextIO]_vars

\* SpecFrames: one file of two-pixel frames of a linear encoding is written
\* as documented, with every combination of packing and compression, and
\* read back.  The frames are one the compressor shrinks, one it leaves at
\* the same length (without packing), and one it makes longer; the
\* compressor may also fail.
FramesInitCalls ==
    {a \in InitCalls : /\ a.width = 2 /\ a.height = 1 /\ a.outputPath = OutPath
                        /\ a.encoding \in {LINEAR_10BIT, LINEAR_12BIT}}

FramesInputs(w) == {Flat(2), <<257, 514>>, Ramp(2, MaxCode(w.encoding_))}

NextFrames ==
    \/ \E a \in FramesInitCalls : ProperInit(a)
    \/ ProperStart
    \/ \E data \in FramesInputs(writer), io \in {"ok", "lz4"} :
          /\ writer.isRecording_
          /\ io = "lz4" => writer.useCompression_
          /\ WriterSubmitFrame(data, 33333, <<F32_1, F32_1, F32_1>>, <<>>, io)
    \/ ProperStop
    \/ ProperDestroy
    \/ ReaderOpen(OutPath)
    \/ \E i \in 0..MaxFrames : ReaderReadFrame(i)
    \/ ReaderClose

SpecFrames == Init /\ [][NextFrames]_vars

\* SpecLog: one file holding one two-pixel frame of a log encoding is
\* written as documented, with every combination of packing and
\* compression, read back and log-decoded with the header's white level and
\* the mean of its black levels.  The white level is the largest code of a
\* 10-bit or of a 12-bit sensor; the samples run from the black level up and
\* from the white level down in LogSteps steps.
LogSteps == 16

LogInitCalls ==
    {[a EXCEPT !.blackLevel = black] :
        a \in {b \in InitArgs :
                  /\ b.width = 2 /\ b.height = 1 /\ b.outputPath = OutPath
                  /\ b.encoding \in {LOG2_10BIT, LOG2_12BIT}},
        black \in {<<>>, <<60, 64, 64, 68>>}}

LogInputs(w) ==
    LET black == (w.blackLevel_[1] + w.blackLevel_[2] + w.blackLevel_[3]
                  + w.blackLevel_[4]) \div 4
        step == (w.whiteLevel_ - black) \div LogSteps
    IN  {<<black + k * step, w.whiteLevel_ - k * step>> : k \in 0..LogSteps}

\* The caller of decodeLog10Bit / decodeLog12Bit on the frame it has read.
DecodeFrame ==
    /\ ret.op = "readFrame" /\ ret.frame.valid
    /\ LET h == reader.fileHeader_
           black == (h.blackLevel[1] + h.blackLevel[2] + h.blackLevel[3]
                     + h.blackLevel[4]) \div 4
           readData == BytesToSamples(ret.frame.pixelData)
           decodedData == IF h.encoding = LOG2_12BIT
                          THEN decodeLog12Bit(readData, black, h.whiteLevel)
                          ELSE decodeLog10Bit(readData, black, h.whiteLevel)
       IN  ret' = [op |-> "decodeLog", ok |-> TRUE, arg |-> ret.arg,
                   frame |-> [ret.frame EXCEPT
                                !.pixelData = SamplesToBytes(decodedData)]]
    /\ UNCHANGED <<writer, reader, disk, ghost>>

NextLog ==
    \/ \E a \in LogInitCalls : ProperInit(a)
    \/ ProperStart
    \/ \E data \in LogInputs(writer) :
          /\ Len(ghost.frames) = 0
          /\ ProperSubmitFrame(data, 33333, <<F32_1, F32_1, F32_1>>, <<>>)
    \/ ProperStop
    \/ ProperDestroy
    \/ ReaderOpen(OutPath)
    \/ ReaderReadFrame(0)
    \/ DecodeFrame
    \/ ReaderClose

SpecLog == Init /\ [][NextLog]_vars

\* SpecEncode: the log encoders are applied to two samples p <= q of
\* [black, white], for black < white: q is the next sample, or LogGap
\* further, or the white level.
LogGap == 64

LogLevels ==
    {<<0, 1>>, <<5, 7>>, <<0, 1023>>, <<64, 1023>>, <<64, 4095>>, <<1000, 1200>>}

InitEncode ==
    /\ writer = NewWriter
    /\ reader = NewReader
    /\ disk = [p \in {} |-> <<>>]
    /\ ghost = NewGhost
    /\ \E bits \in {10, 12}, lv \in LogLevels :
          \E p \in lv[1]..lv[2] : \E q \in {p + 1, p + LogGap, lv[2]} :
             /\ q <= lv[2]
             /\ ret = Ret("pixels", TRUE, [bits |-> bits, blackLevel |-> lv[1],
                                           whiteLevel |-> lv[2], p |-> p, q |-> q])

EncodePixels ==
    /\ ret.op = "pixels"
    /\ LET a == ret.arg
           encode(pixel) ==
               IF a.bits = 12
               THEN encodePixelLog12Bit(pixel, a.blackLevel, a.whiteLevel)
               ELSE encodePixelLog10Bit(pixel, a.blackLevel, a.whiteLevel)
       IN  ret' = Ret("encodePixel", TRUE,
                      [bits |-> a.bits, blackLevel |-> a.blackLevel,
                       whiteLevel |-> a.whiteLevel, p |-> a.p, q |-> a.q,
                       encodedP |-> encode(a.p), encodedQ |-> encode(a.q)])
    /\ UNCHANGED <<writer, reader, disk, ghost>>

NextEncode == EncodePixels

SpecEncode == InitEncode /\ [][NextEncode]_vars

\* SpecReaders: several VrawReader instances are called in any order on
\* one finalized file of two frames, packed or not and with or without
\* audio.  In this specification reader holds the instances, and ghost
\* holds, for each instance, a reader that is given the calls of that
\* instance only, and what the last call returned to it.
Instances == 1..2

\* The file that init, enableAudio, start, two submitFrame calls, submitAudio
\* and stop leave.
RecordedFile(a, withAudio) ==
    LET wb == <<F32_1, F32_1, F32_1>>
        r1 == init(NewWriter, [p \in {} |-> <<>>], a, "ok")
        w2 == IF withAudio THEN enableAudio(r1.w, 48000, 1).w ELSE r1.w
        w3 == start(w2).w
        r4 == submitFrame(w3, r1.d, Flat(2), 33333, wb, <<>>, "ok")
        r5 == submitFrame(r4.w, r4.d, Ramp(2, MaxCode(a.encoding)), 66666, wb,
                          <<>>, "ok")
        w6 == IF withAudio THEN submitAudio(r5.w, <<1, 65535>>, 2, 7).w
              ELSE r5.w
    IN  stop(w6, r5.d, "ok").d

ReadersInitCalls ==
    {a \in InitCalls : /\ a.width = 2 /\ a.height = 1 /\ a.outputPath = OutPath
                        /\ a.encoding = LINEAR_12BIT
                        /\ a.usePacking = a.useCompression}

InitReaders ==
    /\ writer = NewWriter
    /\ reader = [i \in Instances |-> NewReader]
    /\ \E a \in ReadersInitCalls, withAudio \in BOOLEAN :
          disk = RecordedFile(a, withAudio)
    /\ ret = Ret("none", TRUE, 0)
    /\ ghost = [solo |-> [i \in Instances |-> NewReader],
                ret |-> Ret("none", TRUE, 0)]

\* The instances after instance i has become r: the fields of a VrawReader
\* are members of the instance.
SetInstance_SharedPackedFlag(rs, i, r) ==
    [j \in DOMAIN rs |-> IF j = i THEN r
                          ELSE [rs[j] EXCEPT !.isPacked_ = r.isPacked_]]

SetInstance(rs, i, r) == [rs EXCEPT ![i] = r]

InstanceOpen(i, path) ==
    /\ \E r \in {open(reader[i], disk, path)} :
          /\ reader' = SetInstance(reader, i, r.r)
          /\ ret' = Ret("open", r.ok, <<i, path>>)
    /\ \E r \in {open(ghost.solo[i], disk, path)} :
          ghost' = [solo |-> [ghost.solo EXCEPT ![i] = r.r],
                    ret |-> Ret("open", r.ok, <<i, path>>)]
    /\ UNCHANGED <<writer, disk>>

InstanceReadFrame(i, frameNumber) ==
    /\ \E r \in {readFrame(reader[i], disk, frameNumber)} :
          /\ reader' = SetInstance(reader, i, r.r)
          /\ ret' = [op |-> "readFrame", ok |-> r.frame.valid,
                     arg |-> <<i, frameNumber>>, frame |-> r.frame]
    /\ \E r \in {readFrame(ghost.solo[i], disk, frameNumber)} :
          ghost' = [solo |-> [ghost.solo EXCEPT ![i] = r.r],
                    ret |-> [op |-> "readFrame", ok |-> r.frame.valid,
                             arg |-> <<i, frameNumber>>, frame |-> r.frame]]
    /\ UNCHANGED <<writer, disk>>

InstanceReadAudio(i) ==
    /\ \E r \in {readAudio(reader[i], disk, IndeterminateAudioHeader, <<>>)} :
          ret' = Ret("readAudio", r.ok,
                     <<i, [header |-> r.header, samples |-> r.samples]>>)
    /\ \E r \in {readAudio(ghost.solo[i], disk, IndeterminateAudioHeader,
                            <<>>)} :
          ghost' = [ghost EXCEPT
                      !.ret = Ret("readAudio", r.ok,
                                  <<i, [header |-> r.header,
                                        samples |-> r.samples]>>)]
    /\ UNCHANGED <<writer, reader, disk>>

InstanceClose(i) ==
    /\ reader' = SetInstance(reader, i, close(reader[i]))
    /\ ret' = Ret("close", TRUE, <<i>>)
    /\ ghost' = [solo |-> [ghost.solo EXCEPT ![i] = close(ghost.solo[i])],
                 ret |-> Ret("close", TRUE, <<i>>)]
    /\ UNCHANGED <<writer, disk>>

NextReaders ==
    \/ \E i \in Instances, path \in {OutPath, MissingPath} :
          InstanceOpen(i, path)
    \/ \E i \in Instances, n \in 0..MaxFrames : InstanceReadFrame(i, n)
    \/ \E i \in Instances : InstanceReadAudio(i)
    \/ \E i \in Instances : InstanceClose(i)

SpecReaders == InitReaders /\ [][NextReaders]_vars

\* SpecScan: buildSequentialIndex is applied to a file of up to
\* MaxScanFrames frames after a 512-byte header, cut at any length from the
\* header's end on, with any declared frame count up to one more than the
\* frames.  A frame declares the sizes <<compressed_size, uncompressed_size>>
\* of ScanSizes and carries the payload they call for.
MaxScanFrames == 3

ScanSizes == {<<0, 0>>, <<0, 2>>, <<3, 4>>, <<2, 0>>}

ScanFrame(sz) ==
    Zeros(12) \o LE(4, sz[1]) \o LE(4, sz[2]) \o Zeros(44)
       \o [i \in 1..(IF sz[1] > 0 THEN sz[1] ELSE sz[2]) |-> 7]

RECURSIVE ScanFile(_)
ScanFile(sizes) ==
    IF sizes = <<>> THEN Zeros(FILE_HEADER_SIZE)
    ELSE ScanFile(SubSeq(sizes, 1, Len(sizes) - 1))
            \o ScanFrame(sizes[Len(sizes)])

InitScan ==
    /\ writer = NewWriter
    /\ reader = NewReader
    /\ disk = [p \in {} |-> <<>>]
    /\ ghost = NewGhost
    /\ \E n \in 0..MaxScanFrames :
          \E sizes \in [1..n -> ScanSizes], frameCount \in 0..(n + 1) :
             \E len \in FILE_HEADER_SIZE..Len(ScanFile(sizes)) :
                ret = Ret("file", TRUE,
                          [frameCount |-> frameCount,
                           f |-> SubSeq(ScanFile(sizes), 1, len)])

BuildSequentialIndex ==
    /\ ret.op = "file"
    /\ \E r \in {buildSequentialIndex(
                     [ZeroFileHeader EXCEPT !.frameCount = ret.arg.frameCount],
                     ret.arg.f)} :
          ret' = Ret("buildSequentialIndex", r.ok,
                     [frameCount |-> ret.arg.frameCount, f |-> ret.arg.f,
                      index |-> r.index])
    /\ UNCHANGED <<writer, reader, disk, ghost>>

NextScan == BuildSequentialIndex

SpecScan == InitScan /\ [][NextScan]_vars

\* One pass of the while loop of buildSequentialIndex, from the state
\* st = [pos, count, index, done]: the loop test, then the body.  done is
\* set when the test fails or the body breaks.  A faulty variant first: on a
\* frame declaring no payload it goes on to the next pass instead of
\* breaking.
ScanPass_ContinuesOnEmpty(f, frameCount, st) ==
    LET fileLen == Len(f)
        fh == ReadAt(f, st.pos, FRAME_HEADER_SIZE)
        dataSize == DataSize(fh)
    IN  IF ~(st.pos + FRAME_HEADER_SIZE <= fileLen /\ st.count < frameCount)
        THEN [st EXCEPT !.done = TRUE]
        ELSE IF fh = <<>> THEN [st EXCEPT !.done = TRUE]
        ELSE IF dataSize <= 0 THEN st
        ELSE IF dataSize > fileLen - st.pos - FRAME_HEADER_SIZE
        THEN [st EXCEPT !.done = TRUE]
        ELSE [pos |-> st.pos + FRAME_HEADER_SIZE + dataSize,
              count |-> st.count + 1,
              index |-> Append(st.index, st.pos), done |-> FALSE]

ScanPass(f, frameCount, st) ==
    LET fileLen == Len(f)
        fh == ReadAt(f, st.pos, FRAME_HEADER_SIZE)
        dataSize == DataSize(fh)
    IN  IF ~(st.pos + FRAME_HEADER_SIZE <= fileLen /\ st.count < frameCount)
        THEN [st EXCEPT !.done = TRUE]
        ELSE IF fh = <<>> THEN [st EXCEPT !.done = TRUE]
        ELSE IF dataSize <= 0 THEN [st EXCEPT !.done = TRUE]
        ELSE IF dataSize > fileLen - st.pos - FRAME_HEADER_SIZE
        THEN [st EXCEPT !.done = TRUE]
        ELSE [pos |-> st.pos + FRAME_HEADER_SIZE + dataSize,
              count |-> st.count + 1,
              index |-> Append(st.index, st.pos), done |-> FALSE]

\* The loop test of buildSequentialIndex holds: the body is entered.
ScanBodyEntered(f, frameCount, st) ==
    st.pos + FRAME_HEADER_SIZE <= Len(f) /\ st.count < frameCount

\* SpecScanLoop: the loop of buildSequentialIndex runs pass by pass on the
\* files of SpecScan; bodies counts the passes that entered the body.  The
\* loop is never suspended: a pass that can be taken is taken.
InitScanLoop ==
    /\ writer = NewWriter
    /\ reader = NewReader
    /\ disk = [p \in {} |-> <<>>]
    /\ ghost = NewGhost
    /\ \E n \in 0..MaxScanFrames :
          \E sizes \in [1..n -> ScanSizes], frameCount \in 0..(n + 1) :
             \E len \in FILE_HEADER_SIZE..Len(ScanFile(sizes)) :
                ret = Ret("scan", FALSE,
                          [frameCount |-> frameCount,
                           f |-> SubSeq(ScanFile(sizes), 1, len),
                           st |-> [pos |-> FILE_HEADER_SIZE, count |-> 0,
                                   index |-> <<>>, done |-> FALSE],
                           bodies |-> 0])

ScanLoopPass ==
    /\ ret.op = "scan" /\ ~ret.arg.st.done
    /\ \E st \in {ScanPass(ret.arg.f, ret.arg.frameCount, ret.arg.st)} :
          ret' = Ret(IF st.done THEN "scanned" ELSE "scan", st.index # <<>>,
                     [ret.arg EXCEPT
                        !.st = st,
                        !.bodies = IF ScanBodyEntered(ret.arg.f,
                                         ret.arg.frameCount, ret.arg.st)
                                   THEN @ + 1 ELSE @])
    /\ UNCHANGED <<writer, reader, disk, ghost>>

NextScanLoop == ScanLoopPass

SpecScanLoop ==
    InitScanLoop /\ [][NextScanLoop]_vars /\ WF_vars(NextScanLoop)

\* SpecUnpack: the reader's unpackers are applied to any source of up to
\* MaxUnpackBytes bytes, whatever it holds, with any pixel count up to
\* MaxUnpackPixels.
MaxUnpackBytes == 8
MaxUnpackPixels == 7

UnpackSources == UNION {[1..n -> {60, 165}] : n \in 0..MaxUnpackBytes}

InitUnpack ==
    /\ writer = NewWriter
    /\ reader = NewReader
    /\ disk = [p \in {} |-> <<>>]
    /\ ghost = NewGhost
    /\ \E bits \in {10, 12}, src \in UnpackSources,
          pixelCount \in 0..MaxUnpackPixels :
          ret = Ret("packed", TRUE,
                    [bits |-> bits, src |-> src, pixelCount |-> pixelCount])

UnpackBytes ==
    /\ ret.op = "packed"
    /\ ret' = Ret("unpack", TRUE,
                  [bits |-> ret.arg.bits, src |-> ret.arg.src,
                   pixelCount |-> ret.arg.pixelCount,
                   dst |-> IF ret.arg.bits = 12
                           THEN unpackFrame12Bit(ret.arg.src, ret.arg.pixelCount)
                           ELSE unpackFrame10Bit(ret.arg.src, ret.arg.pixelCount)])
    /\ UNCHANGED <<writer, reader, disk, ghost>>

NextUnpack == UnpackBytes

SpecUnpack == InitUnpack /\ [][NextUnpack]_vars

\* packFrameInto storing the final byte with |= rather than =: a faulty
\* variant.
packFrameInto_OrsFinalByte(packedBuffer, bits, src) ==
    LET packed == IF bits = 12 THEN packFrame12Bit(src) ELSE packFrame10Bit(src)
        n == Len(packed)
        dst == IF Len(packedBuffer) < n THEN packedBuffer \o Zeros(n - Len(packedBuffer)) ELSE packedBuffer
        head == IF n = 0 THEN <<>> ELSE Append(SubSeq(packed, 1, n - 1), BitOr(packed[n], dst[n]))
    IN  [packedBytes |-> n, packedBuffer |-> head \o SubSeq(dst, n + 1, Len(dst))]

\* SpecScratch: one writer packs up to MaxScratchCalls frames of up to
\* MaxScratchLen samples, of any 16-bit value, into its scratch buffer
\* packedBuffer_, which is never shrunk or cleared between frames.
MaxScratchLen == 3
MaxScratchCalls == 2

ScratchInputs == UNION {[1..n -> {682, 65535}] : n \in 0..MaxScratchLen}

ensurePackedCapacity(packedBuffer, packedBytes) ==
    IF Len(packedBuffer) < packedBytes
    THEN packedBuffer \o Zeros(packedBytes - Len(packedBuffer))
    ELSE packedBuffer

\* packFrame10Bit / packFrame12Bit on the scratch buffer: the packed bytes
\* are stored from index 0, what the buffer holds beyond them is kept.
packFrameInto(packedBuffer, bits, src) ==
    LET packed == IF bits = 12 THEN packFrame12Bit(src) ELSE packFrame10Bit(src)
        dst == ensurePackedCapacity(packedBuffer, Len(packed))
    IN  [packedBytes |-> Len(packed),
         packedBuffer |-> packed \o SubSeq(dst, Len(packed) + 1, Len(dst))]

InitScratch ==
    /\ writer = NewWriter
    /\ reader = NewReader
    /\ disk = [p \in {} |-> <<>>]
    /\ ghost = NewGhost
    /\ ret = Ret("scratch", TRUE,
                 [bits |-> 10, src |-> <<>>, packedBytes |-> 0,
                  packedBuffer |-> <<>>, stale |-> <<>>, calls |-> 0])

PackScratch(bits, src) ==
    /\ ret.arg.calls < MaxScratchCalls
    /\ \E r \in {packFrameInto(ret.arg.packedBuffer, bits, src)} :
          ret' = Ret("packScratch", TRUE,
                     [bits |-> bits, src |-> src,
                      packedBytes |-> r.packedBytes,
                      packedBuffer |-> r.packedBuffer,
                      stale |-> ret.arg.packedBuffer,
                      calls |-> ret.arg.calls + 1])
    /\ UNCHANGED <<writer, reader, disk, ghost>>

NextScratch == \E bits \in {10, 12}, src \in ScratchInputs : PackScratch(bits, src)

SpecScratch == InitScratch /\ [][NextScratch]_vars

\* SpecClip: the log encoders are applied to one sample with any black and
\* white level: every value up to MaxClipLevel and the ends of the 10-bit,
\* 12-bit and 16-bit ranges, the white level below, at or above the black
\* level, the sample below, within or above [black, white].
MaxClipLevel == 6

ClipLevels ==
    (0..MaxClipLevel) \cup {63, 64, 65, 1023, 1024, 4095, 4096, 65535}

InitClip ==
    /\ writer = NewWriter
    /\ reader = NewReader
    /\ disk = [p \in {} |-> <<>>]
    /\ ghost = NewGhost
    /\ \E bits \in {10, 12}, pixel \in ClipLevels, black \in ClipLevels,
          white \in ClipLevels :
          ret = Ret("pixel", TRUE, [bits |-> bits, pixel |-> pixel,
                                    blackLevel |-> black, whiteLevel |-> white])

EncodePixel ==
    /\ ret.op = "pixel"
    /\ ret' = Ret("encodePixel", TRUE,
                  [bits |-> ret.arg.bits, pixel |-> ret.arg.pixel,
                   blackLevel |-> ret.arg.blackLevel,
                   whiteLevel |-> ret.arg.whiteLevel,
                   code |-> IF ret.arg.bits = 12
                            THEN encodePixelLog12Bit(ret.arg.pixel,
                                    ret.arg.blackLevel, ret.arg.whiteLevel)
                            ELSE encodePixelLog10Bit(ret.arg.pixel,
                                    ret.arg.blackLevel, ret.arg.whiteLevel)])
    /\ UNCHANGED <<writer, reader, disk, ghost>>

NextClip == EncodePixel

SpecClip == InitClip /\ [][NextClip]_vars

(***************************************************************************)
(* Properties of the writer, under SpecWriter.                             *)
(***************************************************************************)
\* C4: whenever the writer is not recording, submitFrame returns failure and
\* changes no field of the writer (so neither getFrameCount() nor
\* getBytesWritten() nor the pending frame index) and no byte of any file.
C4_SubmitFrameOnlyWhenRecording ==
    [][(ret'.op = "submitFrame" /\ ~writer.isRecording_)
          => (~ret'.ok /\ writer' = writer /\ disk' = disk)]_vars

\* A frame was submitted after stop() and rejected: the file keeps its frame.
C4_Witness ==
    /\ ret.op = "submitFrame" /\ ~ret.ok
    /\ writer.outputFile_.open /\ ~writer.isRecording_
    /\ ghost.finalized /\ Len(ghost.frames) = 1

\* C5: once stop() has succeeded on a writer, the writer is never recording
\* again (so no later start() succeeds and no later frame is accepted).
C5_NoReentryAfterStop == ghost.finalized => ~writer.isRecording_

\* C6: init on a writer whose output is open returns false and changes no
\* field of the writer and no byte of any file.
C6_ReinitRejected ==
    [][(ret'.op = "init" /\ writer.outputFile_.open)
          => (~ret'.ok /\ writer' = writer /\ disk' = disk)]_vars

\* init was called on a recording writer that has written a frame, and was
\* rejected.
C6_Witness ==
    /\ ret.op = "init" /\ ~ret.ok
    /\ writer.isRecording_ /\ writer.frameNumber_ = 1
    /\ Len(disk[OutPath]) > FILE_HEADER_SIZE

(***************************************************************************)
(* Properties of a file written as documented and then read, under Spec.   *)
(***************************************************************************)
\* The file at OutPath was written by init, start, at least one submitFrame
\* and stop (called, or run by the destructor), in a linear encoding.
LinearFileOfFrames ==
    /\ ghost.inits = 1 /\ ghost.stops = 1 /\ Len(ghost.frames) >= 1
    /\ ghost.cfg.encoding \in {LINEAR_10BIT, LINEAR_12BIT}
    /\ ~ghost.crashed /\ ghost.cutAt = -1 /\ ghost.damagedAt = -1

\* C1: a linear file of N >= 1 frames opens with getFrameCount() = N, and
\* readFrame(i), i < N, is valid with exactly the submitted samples of frame
\* i as pixelData (width*height*2 bytes), whatever the packing, the
\* compression and the frame size.
C1_LinearRoundTrip ==
    LinearFileOfFrames =>
        /\ (ret.op = "open" /\ ret.arg = OutPath) =>
               ret.ok /\ Len(reader.frameIndex_) = Len(ghost.frames)
        /\ (ret.op = "readFrame" /\ reader.file_.open
                /\ ret.arg < Len(ghost.frames)) =>
               /\ ret.frame.valid
               /\ ret.frame.pixelData
                     = SamplesToBytes(ghost.frames[ret.arg + 1].data)

\* C8: readFrame(i) on a closed reader, or with i >= getFrameCount(), returns
\* an invalid frame and leaves the reader (index, parsed header, isPacked
\* flag, open state) and the file as they were.
C8_BadIndexNoMutation ==
    [][(ret'.op = "readFrame"
          /\ (~reader.file_.open \/ ret'.arg >= Len(reader.frameIndex_)))
          => (~ret'.frame.valid /\ reader' = reader /\ disk' = disk)]_vars

\* An open reader whose isPacked flag a successful read has set was asked
\* for a frame past the end of its index.
C8_Witness ==
    /\ ret.op = "readFrame" /\ ~ret.frame.valid
    /\ reader.file_.open /\ reader.isPacked_
    /\ Len(reader.frameIndex_) >= 1 /\ ret.arg >= Len(reader.frameIndex_)

\* A closed reader that keeps the header of the file it had open was asked
\* for a frame.
C8_WitnessClosed ==
    /\ ret.op = "readFrame" /\ ~ret.frame.valid
    /\ ~reader.file_.open /\ reader.fileHeader_.width > 0

(***************************************************************************)
(* Properties of opening a file left by a crash or cut short, under        *)
(* SpecRecovery.                                                           *)
(***************************************************************************)
\* Where frame i of the file ends: its header and its whole payload.
FrameEnd(i) ==
    ghost.frames[i].offset + FRAME_HEADER_SIZE + ghost.frames[i].stored

\* The offsets of the frames of the file that lie wholly before position n.
FramesBefore(n) ==
    SelectSeq([i \in 1..Len(ghost.frames) |-> ghost.frames[i].offset],
              LAMBDA off : \E i \in 1..Len(ghost.frames) :
                              ghost.frames[i].offset = off /\ FrameEnd(i) <= n)

\* C2: a file whose writer took k >= 1 frames and died before stop() opens,
\* and the reader's index holds exactly those k frames.
C2_CrashRecovery ==
    (/\ ghost.crashed /\ ghost.stops = 0 /\ Len(ghost.frames) >= 1
     /\ ghost.cutAt = -1
     /\ ret.op = "open" /\ ret.arg = OutPath)
    => (/\ ret.ok
        /\ reader.frameIndex_ = FramesBefore(Len(disk[OutPath])))

\* C3: a file finalized by stop() with N >= 1 frames, with or without an
\* audio block, and cut at or after the end of its first frame opens, and
\* the reader's index holds exactly the frames that lie wholly before the
\* cut.
C3_TruncationRecovery ==
    (/\ ghost.stops = 1 /\ ~ghost.crashed /\ Len(ghost.frames) >= 1
     /\ ghost.cutAt >= FrameEnd(1)
     /\ ret.op = "open" /\ ret.arg = OutPath)
    => (/\ ret.ok
        /\ reader.frameIndex_ = FramesBefore(ghost.cutAt))

\* A file of two frames and an audio block, cut inside the payload of its
\* second frame, was opened and shows its first frame only.
C3_Witness ==
    /\ ghost.stops = 1 /\ Len(ghost.frames) = 2 /\ ghost.audioCalls = 1
    /\ ghost.cutAt > ghost.frames[2].offset + FRAME_HEADER_SIZE
    /\ ghost.cutAt < FrameEnd(2)
    /\ ret.op = "open" /\ ret.arg = OutPath /\ ret.ok
    /\ reader.frameIndex_ = <<ghost.frames[1].offset>>

\* A file of two frames cut inside its index table was opened and shows
\* both frames.
C3_WitnessIndexCut ==
    /\ ghost.stops = 1 /\ Len(ghost.frames) = 2
    /\ ghost.cutAt > FrameEnd(2)
    /\ ghost.cutAt < reader.fileHeader_.indexOffset + 16
    /\ ret.op = "open" /\ ret.arg = OutPath /\ ret.ok
    /\ Len(reader.frameIndex_) = 2

\* C7: a failing open leaves the reader closed, with an empty index, and
\* with the file header it had before the call.
C7_OpenAtomic ==
    [][(ret'.op = "open" /\ ~ret'.ok)
          => (/\ ~reader'.file_.open
              /\ reader'.frameIndex_ = <<>>
              /\ reader'.fileHeader_ = reader.fileHeader_)]_vars

(***************************************************************************)
(* Properties of reading a damaged file, under SpecCorrupt.                *)
(***************************************************************************)
\* What a reader that has just opened the file at path returns for
\* frameNumber.
FreshRead(path, frameNumber) ==
    readFrame(open(NewReader, disk, path).r, disk, frameNumber).frame

\* C9: a readFrame on an open reader, failing or not, leaves the reader open
\* with the same index and file header, and returns what a reader that has
\* read nothing yet returns for that frame: a failed read of one frame
\* changes no later read of another, in any order of reads.
C9_PayloadFailureNotFatal ==
    [][(ret'.op = "readFrame" /\ reader.file_.open)
          => (/\ reader'.file_ = reader.file_
              /\ reader'.frameIndex_ = reader.frameIndex_
              /\ reader'.fileHeader_ = reader.fileHeader_
              /\ ret'.frame = FreshRead(reader.filePath_, ret'.arg))]_vars

\* In a damaged file of two frames one frame failed to read, and the other
\* was then read and is valid.
C9_Witness ==
    /\ ghost.damagedAt # -1 /\ Len(ghost.frames) = 2
    /\ ghost.badReads # {}
    /\ ret.op = "readFrame" /\ ret.frame.valid
    /\ ret.arg \notin ghost.badReads
    /\ reader.file_.open /\ Len(reader.frameIndex_) = 2

\* C10: a frame that readFrame returns as valid has exactly width*height*2
\* bytes of pixelData.
C10_ValidFrameIsComplete ==
    (ret.op = "readFrame" /\ ret.frame.valid)
    => Len(ret.frame.pixelData)
          = reader.fileHeader_.width * reader.fileHeader_.height * 2

(***************************************************************************)
(* Properties of the packers, under SpecPack.                              *)
(***************************************************************************)
\* C11: unpacking what the 10-bit or 12-bit packer made of an array of
\* in-range samples, with the array's length as the pixel count, gives the
\* array back exactly (as 16-bit little-endian samples).
C11_PackerExact ==
    ret.op = "unpackFrame" => ret.arg.dst = SamplesToBytes(ret.arg.src)

\* Five 10-bit samples (one whole group of four and one more), the last at
\* full scale, were packed into 7 bytes and unpacked.
C11_Witness ==
    /\ ret.op = "unpackFrame" /\ ret.arg.bits = 10
    /\ Len(ret.arg.src) = 5 /\ ret.arg.src[5] = 1023
    /\ Len(ret.arg.packed) = 7 /\ Len(ret.arg.dst) = 10

\* Three 12-bit samples (an odd count) were packed into 5 bytes and unpacked.
C11_WitnessOdd12 ==
    /\ ret.op = "unpackFrame" /\ ret.arg.bits = 12
    /\ Len(ret.arg.src) = 3 /\ ret.arg.src[3] = 4095
    /\ Len(ret.arg.packed) = 5 /\ Len(ret.arg.dst) = 6

(***************************************************************************)
(* Properties of audio, under SpecAudio.                                   *)
(***************************************************************************)
\* The file was finalized by the one stop() of a recording that accepted
\* audio samples, and no field of it was overwritten since.
AudioRecorded ==
    /\ ghost.stops = 1 /\ ghost.audioCalls >= 1 /\ ghost.damagedAt = -1

\* What readAudio returns to a caller with a new header and an empty vector.
FreshAudio == readAudio(reader, disk, IndeterminateAudioHeader, <<>>)

\* The result r of readAudio is the audio that was submitted.
IsSubmittedAudio(r) ==
    /\ r.samples = ghost.audio
    /\ r.header.sampleRate = ghost.audioFormat[1]
    /\ r.header.channels = ghost.audioFormat[2]
    /\ r.header.sampleCount * ghost.audioFormat[2] = Len(ghost.audio)

\* C12 as stated: whatever was recorded besides the audio, after stop() and
\* open, hasAudio() is true and readAudio returns the submitted samples in
\* order, with the enabled sample rate and channels and the per-channel
\* sample count.  (Violated: with no frame accepted, open fails and so does
\* readAudio.)
C12_AudioRoundTripAnyRecording ==
    ret.op = "open" /\ AudioRecorded =>
        /\ reader.fileHeader_.hasAudio
        /\ FreshAudio.ok /\ IsSubmittedAudio(FreshAudio)

\* C12, amended: when at least one frame was accepted besides the audio,
\* open succeeds with hasAudio() true, and readAudio on the open reader
\* succeeds and returns the samples of all calls in submission order,
\* bit-exact, with the sample rate and channels as enabled and the total
\* per-channel sample count.
C12_AudioRoundTrip ==
    /\ ret.op = "open" /\ AudioRecorded /\ Len(ghost.frames) >= 1 =>
          ret.ok /\ reader.fileHeader_.hasAudio
    /\ ret.op = "readAudio" /\ AudioRecorded /\ reader.file_.open =>
          /\ ret.ok /\ reader.fileHeader_.hasAudio
          /\ IsSubmittedAudio(ret.arg)

\* Stereo audio submitted in two calls of different lengths was read back.
C12_Witness ==
    /\ ret.op = "readAudio" /\ ret.ok /\ AudioRecorded
    /\ ghost.audioCalls = 2 /\ ghost.audioFormat = <<44100, 2>>
    /\ ret.arg.samples = <<1, 65535, 32768, 2, 3, 4>>
    /\ ret.arg.header.sampleCount = 3

\* C13: readAudio fails when the file header's audio flag is clear or its
\* audio offset is 0, and when the four bytes at the audio offset are not
\* MAUD, whether the file is tagged VRAW or MRAW; a file finalized with audio
\* enabled and no samples submitted has no audio block (flag and offset are
\* clear, the index follows the last frame) and readAudio on it fails.
C13_ReadAudioFails ==
    LET f == disk[OutPath]
        audioOffset == Field(f, OFF_audio_offset, 8)
    IN  /\ ret.op = "readAudio" /\ reader.file_.open
           /\ (f[OFF_has_audio + 1] = 0 \/ audioOffset = 0
               \/ ReadAt(f, audioOffset, 4) # MAGIC_MAUD)
           => ~ret.ok
        /\ ghost.stops = 1 /\ ghost.audioCalls = 0 /\ ghost.damagedAt = -1
           => /\ f[OFF_has_audio + 1] = 0 /\ audioOffset = 0
              /\ Field(f, OFF_index_offset, 8)
                    = FILE_HEADER_SIZE
                      + Len(ghost.frames) * (FRAME_HEADER_SIZE + 2)
              /\ ~FreshAudio.ok

\* readAudio failed on an open file tagged MRAW whose header announces
\* audio, because a byte of the audio block's magic tag was overwritten.
C13_Witness ==
    /\ ret.op = "readAudio" /\ ~ret.ok /\ reader.file_.open
    /\ ReadAt(disk[OutPath], 0, 4) = MAGIC_MRAW
    /\ reader.fileHeader_.hasAudio /\ reader.fileHeader_.audioOffset > 0
    /\ ghost.damagedAt = reader.fileHeader_.audioOffset + 3

\* readAudio failed on an open file whose audio flag is set and whose audio
\* offset was overwritten with zeros.
C13_WitnessOffsetZero ==
    /\ ret.op = "readAudio" /\ ~ret.ok /\ reader.file_.open
    /\ reader.fileHeader_.hasAudio /\ reader.fileHeader_.audioOffset = 0
    /\ ghost.damagedAt = OFF_audio_offset

\* stop() has finalized a recording with audio enabled, a frame and no
\* samples: the header's audio flag is clear.
C13_WitnessNoSamples ==
    /\ ret.op = "stop" /\ ret.ok /\ writer.audioEnabled_
    /\ ghost.audioCalls = 0 /\ Len(ghost.frames) = 1
    /\ disk[OutPath][OFF_has_audio + 1] = 0

\* readAudio failed on an open, undamaged file that holds no samples.
C13_WitnessNoBlock ==
    /\ ret.op = "readAudio" /\ ~ret.ok /\ reader.file_.open
    /\ ghost.audioCalls = 0 /\ ghost.damagedAt = -1

(***************************************************************************)
(* Properties of the file header, under SpecHeader.                        *)
(***************************************************************************)
\* The file at OutPath is tagged VRAW or MRAW and its version is below 2.
LegacyFile ==
    /\ OutPath \in DOMAIN disk
    /\ Len(disk[OutPath]) >= FILE_HEADER_SIZE
    /\ ReadAt(disk[OutPath], 0, 4) \in {MAGIC_VRAW, MAGIC_MRAW}
    /\ Field(disk[OutPath], 4, 4) < 2

\* C14: a header of version below 2, under either magic tag, parses without
\* error (and the file opens when it holds a frame); the reader then
\* reports the native resolution equal to the effective one, binning 1:1, no
\* audio, no timecode and orientation 0, whatever the bytes of the fields
\* that only version 2 has.
C14_LegacyCompatible ==
    /\ LegacyFile => readFileHeader(reader.fileHeader_, disk[OutPath]).ok
    /\ ret.op = "open" /\ LegacyFile /\ ghost.stops = 1
          /\ Len(ghost.frames) >= 1 => ret.ok
    /\ ret.op = "open" /\ ret.ok /\ LegacyFile =>
          LET h == reader.fileHeader_
          IN  /\ h.version = Field(disk[OutPath], 4, 4)
              /\ h.width = Field(disk[OutPath], 8, 4)
              /\ h.height = Field(disk[OutPath], 12, 4)
              /\ h.nativeWidth = h.width /\ h.nativeHeight = h.height
              /\ h.binningNum = 1 /\ h.binningDen = 1
              /\ ~h.hasAudio /\ ~h.hasTimecode
              /\ h.sensorOrientation = 0

\* A file tagged MRAW, version 1, was opened; its bytes hold a native width
\* of 2, a binning of 1:2, the audio flag, the timecode flag and an
\* orientation of 90.
C14_Witness ==
    /\ ret.op = "open" /\ ret.ok /\ LegacyFile
    /\ ReadAt(disk[OutPath], 0, 4) = MAGIC_MRAW
    /\ reader.fileHeader_.version = 1
    /\ Field(disk[OutPath], 44, 4) = 2 /\ Field(disk[OutPath], 56, 4) = 2
    /\ disk[OutPath][OFF_has_audio + 1] = 1 /\ disk[OutPath][85] = 1
    /\ Field(disk[OutPath], 100, 4) = 90
    /\ reader.fileHeader_.nativeWidth = 1

\* A file tagged VRAW, version 0, was opened.
C14_WitnessVersion0 ==
    /\ ret.op = "open" /\ ret.ok /\ LegacyFile
    /\ ReadAt(disk[OutPath], 0, 4) = MAGIC_VRAW
    /\ reader.fileHeader_.version = 0

\* C15: after a successful open of a file of version below 2, every field
\* of getFileHeader() that only version 2 has holds its fixed default, the
\* value a new reader reports: it depends neither on the file's bytes nor
\* on a file opened earlier.
C15_LegacyDefaults ==
    ret.op = "open" /\ ret.ok /\ LegacyFile =>
        LET h == reader.fileHeader_
        IN  /\ h.nativeWidth = h.width /\ h.nativeHeight = h.height
            /\ h.binningNum = 1 /\ h.binningDen = 1
            /\ ~h.hasAudio /\ ~h.hasTimecode /\ h.sensorOrientation = 0
            /\ h.audioChannels = ZeroFileHeader.audioChannels
            /\ h.audioBitDepth = ZeroFileHeader.audioBitDepth
            /\ h.audioSampleRate = ZeroFileHeader.audioSampleRate
            /\ h.audioOffset = ZeroFileHeader.audioOffset
            /\ h.audioStartTimeUs = ZeroFileHeader.audioStartTimeUs
            /\ h.timecode = ZeroFileHeader.timecode

\* C16: open succeeds only on a file whose first four bytes are VRAW or
\* MRAW, and fails outright, leaving the reader closed without an index, on
\* any other; the file under the writer's hands, and the file it has just
\* finalized, begins with VRAW and never with MRAW.
C16_MagicTags ==
    /\ ret.op = "open" /\ ret.ok =>
          ReadAt(disk[OutPath], 0, 4) \in {MAGIC_VRAW, MAGIC_MRAW}
    /\ ret.op = "open" /\ OutPath \in DOMAIN disk
          /\ ReadAt(disk[OutPath], 0, 4) \notin {MAGIC_VRAW, MAGIC_MRAW} =>
          ~ret.ok /\ ~reader.file_.open /\ reader.frameIndex_ = <<>>
    /\ writer.outputFile_.open \/ ret.op \in {"stop", "~VrawWriter"} =>
          ReadAt(disk[OutPath], 0, 4) = MAGIC_VRAW

\* open failed on a finalized file of one frame whose fourth magic byte was
\* overwritten.
C16_Witness ==
    /\ ret.op = "open" /\ ~ret.ok
    /\ ghost.stops = 1 /\ Len(ghost.frames) = 1 /\ ghost.damagedAt = 3
    /\ SubSeq(disk[OutPath], 1, 3) = SubSeq(MAGIC_VRAW, 1, 3)

\* open succeeded on a file that was retagged MRAW, at version 2.
C16_WitnessMRAW ==
    /\ ret.op = "open" /\ ret.ok
    /\ ReadAt(disk[OutPath], 0, 8) = MAGIC_MRAW \o LE(4, 2)

\* stop() has finalized a file: it is tagged VRAW.
C16_WitnessWriter ==
    /\ ret.op = "stop" /\ ret.ok
    /\ ReadAt(disk[OutPath], 0, 4) = MAGIC_VRAW

(***************************************************************************)
(* Properties of index acquisition, under SpecIndex.                       *)
(***************************************************************************)
\* The index table as open reads it from the file at OutPath, and the index
\* a scan of that file builds, with the header the reader has parsed.
DirectIndex == readIndexTable(reader.fileHeader_, <<>>, disk[OutPath])
ScanIndex == buildSequentialIndex(reader.fileHeader_, disk[OutPath])

\* C17: after every successful open, every offset of the index is at least
\* 512 and less than the file's length; when the index table as read holds
\* an offset outside that range, none of it is kept: the index is the one
\* the sequential scan builds.
C17_IndexValidated ==
    ret.op = "open" /\ ret.ok =>
        /\ \A i \in 1..Len(reader.frameIndex_) :
              /\ reader.frameIndex_[i] >= FILE_HEADER_SIZE
              /\ reader.frameIndex_[i] < Len(disk[OutPath])
        /\ (DirectIndex.ok
              /\ \E i \in 1..Len(DirectIndex.index) :
                    \/ DirectIndex.index[i] < FILE_HEADER_SIZE
                    \/ DirectIndex.index[i] >= Len(disk[OutPath]))
           => reader.frameIndex_ = ScanIndex.index

\* open succeeded on a file of two frames whose second index entry was
\* overwritten with the file's length: the index is that of the scan.
C17_Witness ==
    /\ ret.op = "open" /\ ret.ok /\ Len(ghost.frames) = 2
    /\ DirectIndex.ok /\ DirectIndex.index[2] = Len(disk[OutPath])
    /\ reader.frameIndex_ = <<ghost.frames[1].offset, ghost.frames[2].offset>>

\* C18: open of a file whose header is valid takes the index table as read
\* when that read succeeds and the table passes validation, and the scan is
\* not consulted then; otherwise it takes the index of the sequential scan;
\* it fails only when neither gives an index, that is, when the scan finds
\* no frame and the table is missing, unreadable or invalid.
C18_AcquisitionOrder ==
    ret.op = "open" /\ OutPath \in DOMAIN disk
      /\ readFileHeader(reader.fileHeader_, disk[OutPath]).ok =>
        IF DirectIndex.ok /\ validateIndex(DirectIndex.index, disk[OutPath])
        THEN ret.ok /\ reader.frameIndex_ = DirectIndex.index
        ELSE IF ScanIndex.ok
        THEN ret.ok /\ reader.frameIndex_ = ScanIndex.index
        ELSE ~ret.ok /\ ~reader.file_.open /\ reader.frameIndex_ = <<>>

\* open succeeded on a file of two frames whose second index entry was
\* overwritten with an offset inside the first frame: the table is in range
\* and is kept as read, though a scan would give the frames' offsets.
C18_Witness ==
    /\ ret.op = "open" /\ ret.ok /\ Len(ghost.frames) = 2
    /\ reader.frameIndex_ = <<FILE_HEADER_SIZE, FILE_HEADER_SIZE + 1>>
    /\ ScanIndex.index = <<ghost.frames[1].offset, ghost.frames[2].offset>>

\* open succeeded by the scan on a finalized file cut inside its index
\* table.
C18_WitnessScan ==
    /\ ret.op = "open" /\ ret.ok /\ ghost.cutAt > IndexOffsetOfFile
    /\ ~DirectIndex.ok /\ reader.frameIndex_ = ScanIndex.index

\* open failed on a file with a valid header left behind by a crash after
\* two frames: no table, and the scan finds nothing.
C18_WitnessFails ==
    /\ ret.op = "open" /\ ~ret.ok /\ ghost.crashed /\ Len(ghost.frames) = 2
    /\ readFileHeader(reader.fileHeader_, disk[OutPath]).ok
    /\ ~DirectIndex.ok /\ ~ScanIndex.ok

\* C19: after every successful open, by the index table or by recovery,
\* the index holds as many entries as getFileHeader().frameCount says.
C19_IndexLengthIsFrameCount ==
    ret.op = "open" /\ ret.ok =>
        Len(reader.frameIndex_) = reader.fileHeader_.frameCount

(***************************************************************************)
(* The layout stop() leaves.                                               *)
(***************************************************************************)
\* Entry i (from 0) of the index table of file f.
IndexEntry(f, i) == Field(f, Field(f, OFF_index_offset, 8) + 8 * i, 8)

\* The stored payload size of frame i (from 0) of the N frames accepted
\* since start().
StoredSize(N, i) == ghost.frames[Len(ghost.frames) - N + i + 1].stored

\* Where the frames of f end, by its index table: after the last frame, or
\* after the file header when there is none.
FramesEnd(f, N) ==
    IF N = 0 THEN FILE_HEADER_SIZE
    ELSE IndexEntry(f, N - 1) + FRAME_HEADER_SIZE + StoredSize(N, N - 1)

\* C20: after a successful stop() that follows N accepted frames, the
\* header holds N at offset 32 and the index offset in the 8 bytes after it;
\* the N entries at the index offset are the frames' offsets in order:
\* entry 0 is 512, entry i+1 is entry i + 64 + the stored payload size of
\* frame i, and the header of frame i lies at entry i; the audio block, if
\* there is one, lies between the last frame and the index, and the header's
\* audio offset points at it.
C20_FinalizeLayout ==
    ret.op = "stop" /\ ret.ok =>
        LET f == disk[writer.outputPath_]
            N == writer.frameNumber_
            indexOffset == Field(f, OFF_index_offset, 8)
            audioOffset == Field(f, OFF_audio_offset, 8)
            ash == ReadAt(f, audioOffset, AUDIO_HEADER_SIZE)
        IN  /\ Field(f, OFF_frame_count, 4) = N
            /\ indexOffset + 8 * N <= Len(f)
            /\ N >= 1 => IndexEntry(f, 0) = FILE_HEADER_SIZE
            /\ \A i \in 0..(N - 2) :
                  IndexEntry(f, i + 1) = IndexEntry(f, i) + FRAME_HEADER_SIZE
                                          + StoredSize(N, i)
            /\ \A i \in 0..(N - 1) :
                  LET fh == ReadAt(f, IndexEntry(f, i), FRAME_HEADER_SIZE)
                  IN  fh # <<>> /\ Field(fh, 8, 4) = i
                      /\ DataSize(fh) = StoredSize(N, i)
            /\ f[OFF_has_audio + 1] # 0 =>
                  /\ audioOffset >= FramesEnd(f, N)
                  /\ ash # <<>> /\ SubSeq(ash, 1, 4) = MAGIC_MAUD
                  /\ audioOffset + AUDIO_HEADER_SIZE
                        + 2 * Field(ash, 16, 8) * Field(ash, 12, 2)
                     <= indexOffset

(***************************************************************************)
(* Properties of the writer's I/O, under SpecIO.                           *)
(***************************************************************************)
\* The call of stop() that has just returned made the I/O call that ret.arg
\* names, and that call failed: the audio calls are made when there are
\* audio samples, the index entries written when there are frames.
StopCallFailed ==
    /\ ret.op = "stop" /\ ret.arg \in StopFailures
    /\ ret.arg \in {"audioHeader", "audioData", "audioPatch"} =>
          writer.audioEnabled_ /\ writer.audioBuffer_ # <<>>
    /\ ret.arg = "indexEntry" => writer.frameOffsets_ # <<>>

\* C21: when an fwrite or fseek made inside submitFrame or stop() fails,
\* the call returns failure; stop() does not return success when the index
\* trailer or the header patch (frame count, index offset, audio fields) was
\* not written.
C21_IOFailuresSurfaced ==
    /\ ret.op = "submitFrame" /\ ret.arg \in SubmitFailures => ~ret.ok
    /\ StopCallFailed => ~ret.ok

\* C30: within a recording, whatever submitFrame calls were made and
\* whichever of them failed on a write, the pending index entries and
\* getFrameCount() both number the submitFrame calls that returned success.
C30_OneEntryPerAcceptedFrame ==
    writer.isRecording_ /\ ghost.sessions = 1 =>
        /\ Len(writer.frameOffsets_) = Len(ghost.frames)
        /\ writer.frameNumber_ = Len(ghost.frames)

(***************************************************************************)
(* Properties of the stored frames, under SpecFrames.                      *)
(***************************************************************************)
\* The compressed_size field of the header of frame i of the file.
StoredCompressedSize(i) ==
    Field(disk[OutPath], ghost.frames[i].offset + 12, 4)

\* The stored payload of frame i of the file.
StoredPayload(i) ==
    ReadAt(disk[OutPath], ghost.frames[i].offset + FRAME_HEADER_SIZE,
           ghost.frames[i].stored)

\* The stored payload of frame i is the output of the compressor, not the
\* bytes that were handed to it.
StoredCompressed(i) == StoredPayload(i) # ghost.frames[i].packed

\* C22: for every frame, with every combination of packing and compression,
\* the header's compressed size is nonzero exactly when the stored payload
\* is compressed; an uncompressed frame has compressed size 0 and a payload
\* as long as its uncompressed size.
C22_CompressedSizeFlag ==
    ghost.inits = 1 =>
        \A i \in 1..Len(ghost.frames) :
            /\ StoredCompressedSize(i) # 0 <=> StoredCompressed(i)
            /\ ~StoredCompressed(i) =>
                   /\ StoredCompressedSize(i) = 0
                   /\ ghost.frames[i].stored
                         = Field(disk[OutPath], ghost.frames[i].offset + 16, 4)

\* C22 (amended): the header's compressed size is the length of the stored
\* payload when the payload is compressed, and also when the file is packed
\* and not compressed; it is 0 otherwise.  A payload that is not compressed
\* is as long as the header's uncompressed size.
C22_CompressedSizeFlagAmended ==
    ghost.inits = 1 =>
        \A i \in 1..Len(ghost.frames) :
            /\ StoredCompressedSize(i) =
                   IF StoredCompressed(i)
                      \/ (ghost.cfg.usePacking /\ ~ghost.cfg.useCompression)
                   THEN ghost.frames[i].stored ELSE 0
            /\ StoredCompressed(i) => ghost.cfg.useCompression
            /\ ~StoredCompressed(i) =>
                   ghost.frames[i].stored
                      = Field(disk[OutPath], ghost.frames[i].offset + 16, 4)

\* A packed file without compression holds a frame; so does a compressed
\* file, one frame stored compressed and one not.
C22_Witness ==
    /\ ghost.inits = 1 /\ Len(ghost.frames) = 1
    /\ ghost.cfg.usePacking /\ ~ghost.cfg.useCompression
    /\ StoredCompressedSize(1) = 3

C22_WitnessBoth ==
    /\ ghost.inits = 1 /\ Len(ghost.frames) = 2
    /\ ghost.cfg.useCompression
    /\ StoredCompressed(1) /\ ~StoredCompressed(2)
    /\ StoredCompressedSize(1) = 2 /\ StoredCompressedSize(2) = 0

\* C23: in a file with compression on, the compressor's output is stored
\* only when it is strictly shorter than its input; when it is as long or
\* longer, or the compressor fails, the input bytes are stored and the
\* header's compressed size is 0.  In both cases readFrame returns the
\* samples that were submitted.
C23_CompressionAcceptance ==
    (ghost.inits = 1 /\ ghost.cfg.useCompression) =>
        /\ \A i \in 1..Len(ghost.frames) :
              LET packed == ghost.frames[i].packed
                  out == LZ4_compress_default(packed)
              IN  /\ StoredCompressed(i) =>
                         /\ StoredPayload(i) = out
                         /\ Len(out) < Len(packed)
                  /\ Len(out) >= Len(packed) =>
                         /\ StoredPayload(i) = packed
                         /\ StoredCompressedSize(i) = 0
        /\ (ret.op = "submitFrame" /\ ret.ok /\ ret.arg = "lz4") =>
              /\ StoredPayload(Len(ghost.frames))
                    = ghost.frames[Len(ghost.frames)].packed
              /\ StoredCompressedSize(Len(ghost.frames)) = 0
        /\ (ret.op = "readFrame" /\ reader.file_.open
                /\ ret.arg < Len(ghost.frames)) =>
              /\ ret.frame.valid
              /\ ret.frame.pixelData
                    = SamplesToBytes(ghost.frames[ret.arg + 1].data)

\* readFrame returned the second frame of a compressed file whose first
\* frame is stored compressed and whose second frame, which the compressor
\* leaves at the same length, is not.
C23_Witness ==
    /\ ghost.cfg.useCompression /\ ~ghost.cfg.usePacking
    /\ Len(ghost.frames) = 2
    /\ StoredCompressed(1) /\ ~StoredCompressed(2)
    /\ Len(LZ4_compress_default(ghost.frames[2].packed))
          = Len(ghost.frames[2].packed)
    /\ ret.op = "readFrame" /\ ret.arg = 1 /\ ret.frame.valid

\* The compressor failed on a frame it would have shrunk, and the frame was
\* read back.
C23_WitnessFailure ==
    /\ ghost.cfg.useCompression /\ Len(ghost.frames) = 1
    /\ ~StoredCompressed(1)
    /\ Len(LZ4_compress_default(ghost.frames[1].packed))
          < Len(ghost.frames[1].packed)
    /\ ret.op = "readFrame" /\ ret.arg = 0 /\ ret.frame.valid

(***************************************************************************)
(* Properties of the log encodings, under SpecLog.                         *)
(***************************************************************************)
Abs(x) == IF x < 0 THEN -x ELSE x

\* The frame that was decoded is the frame of the file, whose samples lie
\* between the mean black level and the white level it was written with.
DecodedFrame ==
    /\ ret.op = "decodeLog" /\ ghost.stops = 1 /\ Len(ghost.frames) = 1

\* Every sample of the decoded frame is within tol of the submitted one.
WithinTolerance(tol) ==
    LET original == ghost.frames[1].data
        decoded == BytesToSamples(ret.frame.pixelData)
    IN  /\ Len(decoded) = Len(original)
        /\ \A i \in 1..Len(original) : Abs(decoded[i] - original[i]) <= tol

LogTolerance == IF ghost.cfg.encoding = LOG2_12BIT THEN 8 ELSE 4

C25_LogMonotone ==
    ret.op = "encodePixel" => ret.arg.encodedP <= ret.arg.encodedQ

\* The 10-bit encoder gave two samples of [64, 4095] that differ by one the
\* same code; and it gave the black level and the white level the codes 0
\* and 1023.
C25_Witness ==
    /\ ret.op = "encodePixel" /\ ret.arg.bits = 10
    /\ ret.arg.blackLevel = 64 /\ ret.arg.whiteLevel = 4095
    /\ ret.arg.q = ret.arg.p + 1 /\ ret.arg.encodedP = ret.arg.encodedQ
    /\ ret.arg.encodedP > 0

C25_WitnessEnds ==
    /\ ret.op = "encodePixel" /\ ret.arg.bits = 10
    /\ ret.arg.p = ret.arg.blackLevel /\ ret.arg.q = ret.arg.whiteLevel
    /\ ret.arg.encodedP = 0 /\ ret.arg.encodedQ = 1023

C26_NoInterference ==
    [][\A i \in Instances :
          (ret'.op # "none" /\ ret'.arg[1] # i) => reader'[i] = reader[i]]_vars

C26_WitnessAudio ==
    /\ ret.op = "readAudio" /\ ret.ok /\ ret.arg[1] = 1
    /\ ret.arg[2].samples = <<1, 65535>>
    /\ ~reader[2].file_.open /\ reader[2].fileHeader_.hasAudio

(***************************************************************************)
(* Properties of the sequential scan, under SpecScan.                      *)
(***************************************************************************)
\* The payload size the frame header at position p of f declares: the
\* compressed size if nonzero, else the uncompressed size.
PayloadSize(f, p) ==
    IF Field(f, p + 12, 4) # 0 THEN Field(f, p + 12, 4) ELSE Field(f, p + 16, 4)

\* The frame at position p of f is whole: its header and its payload, which
\* is not empty, lie within the file.
WholeFrame(f, p) ==
    /\ p + FRAME_HEADER_SIZE <= Len(f)
    /\ PayloadSize(f, p) > 0
    /\ p + FRAME_HEADER_SIZE + PayloadSize(f, p) <= Len(f)

\* C27: the scan yields offsets p0 = 512 and p(i+1) = p(i) + 64 + the
\* payload size of frame i; every frame it adds is whole; it stops, without
\* adding the frame, at the first frame that is not whole, or when it has
\* as many entries as the header declares frames, and never returns more.
C27_ScanInvariant ==
    ret.op = "buildSequentialIndex" =>
        LET f == ret.arg.f
            index == ret.arg.index
            N == Len(index)
            next == IF N = 0 THEN FILE_HEADER_SIZE
                    ELSE index[N] + FRAME_HEADER_SIZE + PayloadSize(f, index[N])
        IN  /\ N > 0 => index[1] = FILE_HEADER_SIZE
            /\ \A i \in 1..(N - 1) :
                  index[i + 1] = index[i] + FRAME_HEADER_SIZE
                                   + PayloadSize(f, index[i])
            /\ \A i \in 1..N : WholeFrame(f, index[i])
            /\ N <= ret.arg.frameCount
            /\ N < ret.arg.frameCount => ~WholeFrame(f, next)
            /\ ret.ok <=> N > 0

\* The scan of a file declaring three frames kept two, one of a compressed
\* size of 3 and one of an uncompressed size of 2, and stopped at a third
\* whose header is whole and declares no payload.
C27_Witness ==
    /\ ret.op = "buildSequentialIndex" /\ ret.arg.frameCount = 3
    /\ ret.arg.index = <<512, 579>>
    /\ Len(ret.arg.f) = 709
    /\ PayloadSize(ret.arg.f, 645) = 0

\* The scan stopped at the declared frame count of 1 with a second whole
\* frame in the file; and it stopped at a frame whose payload is cut short.
C27_WitnessCount ==
    /\ ret.op = "buildSequentialIndex" /\ ret.arg.frameCount = 1
    /\ ret.arg.index = <<512>> /\ WholeFrame(ret.arg.f, 578)

C27_WitnessCut ==
    /\ ret.op = "buildSequentialIndex" /\ ret.arg.frameCount = 3
    /\ ret.arg.index = <<512>>
    /\ Len(ret.arg.f) = 578 + FRAME_HEADER_SIZE + 2
    /\ PayloadSize(ret.arg.f, 578) = 3

(***************************************************************************)
(* Properties of the frames read back, under Spec.                         *)
(***************************************************************************)
\* C28: for every frame size, bit depth and compression setting, readFrame
\* treats a frame as bit-packed exactly when the writer packed it: the
\* header's uncompressed size is less than width * height * 2 for every
\* frame of a packed file and for no frame of an unpacked one.
C28_PackingInference ==
    (ghost.inits = 1 /\ ghost.stops = 1 /\ ret.op = "readFrame"
        /\ ret.frame.valid /\ ret.arg < Len(ghost.frames)) =>
        /\ reader.isPacked_ = ghost.cfg.usePacking
        /\ (ret.frame.header.uncompressedSize
               < ghost.cfg.width * ghost.cfg.height * 2)
              <=> ghost.cfg.usePacking

(***************************************************************************)
(* Properties of frame numbers and frame metadata, under SpecIO.           *)
(***************************************************************************)
\* The header that readFrame or readFrameHeader returned is that of the
\* i-th accepted frame (i from 0): frame number i, and the timestamp, the
\* white balance and the black levels the frame was submitted with.
HeaderOfAccepted(header, i) ==
    LET fr == ghost.frames[i + 1]
    IN  /\ header.frameNumber = i
        /\ header.timestampUs = fr.timestampUs
        /\ <<header.whiteBalanceR, header.whiteBalanceG, header.whiteBalanceB>>
              = fr.whiteBalance
        /\ header.dynamicBlackLevel = fr.blackLevel

\* C29: the i-th accepted submitFrame since start() (i from 0) is stored
\* with frame number i; after stop() and open, readFrame(i).header and
\* readFrameHeader(i) both return frame number i, the submitted timestamp
\* and white balance, and the per-frame black levels (the submitted
\* override, or the writer's global black levels when none was given).
C29_FrameNumbering ==
    (ghost.inits = 1 /\ ghost.sessions = 1) =>
        /\ \A i \in 1..Len(ghost.frames) :
              Field(disk[OutPath], ghost.frames[i].offset + 8, 4) = i - 1
        /\ (ghost.stops = 1 /\ reader.file_.open
               /\ ret.op \in {"readFrame", "readFrameHeader"}
               /\ ret.arg < Len(ghost.frames)) =>
              ret.ok /\ HeaderOfAccepted(ret.frame.header, ret.arg)

(***************************************************************************)
(* Properties of the unpackers, under SpecUnpack.                          *)
(***************************************************************************)
\* Bit i (from 0, least significant first within a byte) of the bytes src.
BitOf(src, i) == (src[(i \div 8) + 1] \div Pow2(i % 8)) % 2

\* Sample k (from 0) of the packed layout of the given bit depth, read from
\* src: 10 consecutive bits, or 12 bits of a three-byte pair of samples.
RECURSIVE BitsValue(_, _, _)
BitsValue(src, first, n) ==
    IF n = 0 THEN 0
    ELSE BitOf(src, first) + 2 * BitsValue(src, first + 1, n - 1)

PackedSample(bits, src, k) ==
    IF bits = 10 THEN BitsValue(src, 10 * k, 10)
    ELSE IF k % 2 = 0
    THEN src[3 * (k \div 2) + 1] * 16 + src[3 * (k \div 2) + 2] \div 16
    ELSE (src[3 * (k \div 2) + 2] % 16) * 256 + src[3 * (k \div 2) + 3]

\* The bytes of src that hold the bits of samples 0..k.
BytesNeeded(bits, k) ==
    IF bits = 10 THEN (10 * (k + 1) + 7) \div 8
    ELSE IF k % 2 = 0 THEN 3 * (k \div 2) + 2 ELSE 3 * (k \div 2) + 3

\* C31: for every source length (0 and lengths shorter than the packed size
\* included) and every pixel count, unpackFrame10Bit and unpackFrame12Bit
\* give pixelCount samples, never more; the leading samples whose bits are
\* all within the source are decoded, the others are zero, and the call
\* does not fail.  (The unpackers are given the srcBytes bytes only: a read
\* at an index >= srcBytes has no value.)
C31_UnpackerLenient ==
    ret.op = "unpack" =>
        LET a == ret.arg
            samples == BytesToSamples(a.dst)
        IN  /\ Len(a.dst) = 2 * a.pixelCount
            /\ \A k \in 0..(a.pixelCount - 1) :
                  samples[k + 1] =
                     IF BytesNeeded(a.bits, k) <= Len(a.src)
                     THEN PackedSample(a.bits, a.src, k)
                     ELSE 0

\* Five bytes were unpacked as 12-bit samples with a pixel count of 4:
\* three samples are whole, the third in the trailing byte pair, and the
\* fourth is zero.
C31_Witness ==
    /\ ret.op = "unpack" /\ ret.arg.bits = 12
    /\ Len(ret.arg.src) = 5 /\ ret.arg.pixelCount = 4
    /\ BytesToSamples(ret.arg.dst)[3] # 0
    /\ BytesToSamples(ret.arg.dst)[4] = 0

\* Four bytes were unpacked as 10-bit samples with a pixel count of 2, and
\* an empty source with a pixel count of 3.
C31_WitnessShortCount ==
    /\ ret.op = "unpack" /\ ret.arg.bits = 10
    /\ Len(ret.arg.src) = 4 /\ ret.arg.pixelCount = 2
    /\ Len(ret.arg.dst) = 4

C31_WitnessEmpty ==
    /\ ret.op = "unpack" /\ ret.arg.src = <<>> /\ ret.arg.pixelCount = 3
    /\ ret.arg.dst = <<0, 0, 0, 0, 0, 0>>

(***************************************************************************)
(* Properties of the packers' scratch buffer, under SpecScratch.           *)
(***************************************************************************)
\* The bytes a frame takes from the scratch buffer: the first packedBytes.
PackedPayload == SubSeq(ret.arg.packedBuffer, 1, ret.arg.packedBytes)

\* C32: packing N samples gives ceil(N*10/8) bytes in the 10-bit layout and
\* ceil(N*3/2) in the 12-bit layout; sample k of the packed bytes is the low
\* 10 (12) bits of sample k, with no padding between samples; only the last
\* byte may be partly used, and its unused bits are zero, whatever an
\* earlier, larger frame left in the scratch buffer.
C32_PackedSizeAndPadding ==
    ret.op = "packScratch" =>
        LET a == ret.arg
            N == Len(a.src)
            usedBits == N * a.bits
        IN  /\ a.packedBytes = (usedBits + 7) \div 8
            /\ a.bits = 12 => a.packedBytes = (N * 3 + 1) \div 2
            /\ Len(a.packedBuffer) >= a.packedBytes
            /\ \A k \in 0..(N - 1) :
                  PackedSample(a.bits, PackedPayload, k)
                     = a.src[k + 1] % Pow2(a.bits)
            /\ usedBits % 8 # 0 =>
                  IF a.bits = 10
                  THEN PackedPayload[a.packedBytes] < Pow2(usedBits % 8)
                  ELSE PackedPayload[a.packedBytes] % 16 = 0

\* Three samples of 682 were packed as 10-bit samples (30 bits, 4 bytes, the
\* last byte using 6 bits) into a scratch buffer whose first five bytes an
\* earlier 12-bit frame of three full-scale samples had set to 255, 255,
\* 255, 255, 240.
C32_Witness ==
    /\ ret.op = "packScratch" /\ ret.arg.calls = 2 /\ ret.arg.bits = 10
    /\ ret.arg.src = <<682, 682, 682>>
    /\ ret.arg.stale = <<255, 255, 255, 255, 240>>
    /\ ret.arg.packedBytes = 4 /\ Len(ret.arg.packedBuffer) = 5
    /\ ret.arg.packedBuffer[4] < 64 /\ ret.arg.packedBuffer[5] = 240

\* One sample of 682 was packed as a 12-bit sample (2 bytes, the second
\* using its high four bits) over the three bytes of an earlier frame of two
\* full-scale samples.
C32_WitnessOdd12 ==
    /\ ret.op = "packScratch" /\ ret.arg.calls = 2 /\ ret.arg.bits = 12
    /\ ret.arg.src = <<682>>
    /\ ret.arg.stale = <<255, 255, 255>>
    /\ PackedPayload = <<42, 160>>

(***************************************************************************)
(* Properties of the frame pipeline, under Spec.                           *)
(***************************************************************************)
\* The three stages applied one after the other to the samples of the frame
\* just accepted: the log encoder when the encoding is logarithmic, then
\* the packer when packing is on, then the compressor when compression is
\* on and its output is shorter.
LogStage(data) ==
    LET avg == (writer.blackLevel_[1] + writer.blackLevel_[2]
                + writer.blackLevel_[3] + writer.blackLevel_[4]) \div 4
    IN  IF ~IsLog(ghost.cfg.encoding) THEN data
        ELSE IF Is12Bit(ghost.cfg.encoding)
        THEN encodeLog12Bit(data, avg, writer.whiteLevel_)
        ELSE encodeLog10Bit(data, avg, writer.whiteLevel_)

PackStage(samples) ==
    IF ~ghost.cfg.usePacking THEN SamplesToBytes(samples)
    ELSE IF Is12Bit(ghost.cfg.encoding) THEN packFrame12Bit(samples)
    ELSE packFrame10Bit(samples)

CompressStage(bytes) ==
    LET out == LZ4_compress_default(bytes)
    IN  IF ghost.cfg.useCompression /\ Len(out) > 0 /\ Len(out) < Len(bytes)
        THEN out ELSE bytes

\* The documented byte length of a frame after packing.
PackedLength ==
    LET N == ghost.cfg.width * ghost.cfg.height
    IN  IF ~ghost.cfg.usePacking THEN N * 2
        ELSE IF Is12Bit(ghost.cfg.encoding) THEN (N * 3 + 1) \div 2
        ELSE (N * 10 + 7) \div 8

\* C33: the payload stored for every accepted frame is its samples passed
\* through log-encode (only for a log encoding), then bit-pack (only with
\* packing), then compress (only with compression), in that order; the
\* uncompressed size in its header is the byte length after packing and
\* before compression: width*height*2 unpacked, ceil(N*10/8) packed 10-bit,
\* ceil(N*3/2) packed 12-bit.
C33_PipelineOrder ==
    (ret.op = "submitFrame" /\ ret.ok) =>
        LET i == Len(ghost.frames)
            f == ghost.frames[i]
            packed == PackStage(LogStage(f.data))
        IN  /\ StoredPayload(i) = CompressStage(packed)
            /\ Len(packed) = PackedLength
            /\ Field(disk[OutPath], f.offset + 16, 4) = PackedLength

\* A three-pixel frame of a 10-bit log encoding, not all black, was accepted
\* with packing and compression on: its samples were changed by the log
\* encoder, packed into 4 bytes, and the header records 4.
C33_Witness ==
    /\ ret.op = "submitFrame" /\ ret.ok
    /\ ghost.cfg.encoding = LOG2_10BIT
    /\ ghost.cfg.usePacking /\ ghost.cfg.useCompression
    /\ ghost.cfg.width * ghost.cfg.height = 3
    /\ LogStage(ghost.frames[Len(ghost.frames)].data)
          # ghost.frames[Len(ghost.frames)].data
    /\ Field(disk[OutPath], ghost.frames[Len(ghost.frames)].offset + 16, 4) = 4

\* A three-pixel frame of zeros was accepted with 12-bit packing and
\* compression: 5 bytes after packing, fewer stored.
C33_WitnessCompressed ==
    /\ ret.op = "submitFrame" /\ ret.ok
    /\ Is12Bit(ghost.cfg.encoding)
    /\ ghost.cfg.usePacking /\ ghost.cfg.useCompression
    /\ Field(disk[OutPath], ghost.frames[Len(ghost.frames)].offset + 16, 4) = 5
    /\ ghost.frames[Len(ghost.frames)].stored < 5

(***************************************************************************)
(* Properties of the log encoders on any levels, under SpecClip.           *)
(***************************************************************************)
\* C34: for every sample, black level and white level, encodePixelLog10Bit
\* and encodePixelLog12Bit return 0 when the sample is not above the black
\* level, and always a code of [0, 1023] and of [0, 4095]: a code that the
\* packer of that bit depth stores whole.
C34_LogEncodeClipsAndFits ==
    ret.op = "encodePixel" =>
        LET a == ret.arg
        IN  /\ a.pixel <= a.blackLevel => a.code = 0
            /\ a.code \in 0..(Pow2(a.bits) - 1)
            /\ LowBits(a.code, a.bits) = a.code

\* A sample above the white level was encoded as the largest 10-bit code.
C34_Witness ==
    /\ ret.op = "encodePixel" /\ ret.arg.bits = 10
    /\ ret.arg.blackLevel = 64 /\ ret.arg.whiteLevel = 1023
    /\ ret.arg.pixel = 65535 /\ ret.arg.code = 1023

\* A sample at the black level was encoded as 0.
C34_WitnessBlack ==
    /\ ret.op = "encodePixel" /\ ret.arg.bits = 12
    /\ ret.arg.blackLevel = 64 /\ ret.arg.whiteLevel = 4095
    /\ ret.arg.pixel = 64 /\ ret.arg.code = 0

\* A sample above the black level was encoded with a white level below the
\* black level, and with a white level equal to it.
C34_WitnessInvertedLevels ==
    /\ ret.op = "encodePixel"
    /\ ret.arg.whiteLevel < ret.arg.blackLevel
    /\ ret.arg.pixel > ret.arg.blackLevel /\ ret.arg.code = 0

C34_WitnessEqualLevels ==
    /\ ret.op = "encodePixel" /\ ret.arg.bits = 12
    /\ ret.arg.whiteLevel = ret.arg.blackLevel
    /\ ret.arg.pixel > ret.arg.blackLevel /\ ret.arg.code = 4095

(***************************************************************************)
(* Properties of closing a reader, under Spec.                             *)
(***************************************************************************)
\* C35: after close(), called by the user or by open() on a reader that had
\* a file open, isOpen() is false, getFrameCount() is 0, readFrame,
\* readFrameHeader and readAudio fail, and the parsed header is discarded:
\* getFileHeader(), hasAudio(), getWidth(), getHeight() and isPacked() no
\* longer report the values of the closed file.
C35_CloseDiscardsSession ==
    [][(/\ reader.file_.open
        /\ (ret'.op = "close" \/ (ret'.op = "open" /\ ret'.arg = MissingPath)))
       => /\ ~reader'.file_.open
          /\ Len(reader'.frameIndex_) = 0
          /\ \A i \in 0..MaxFrames :
                /\ ~readFrame(reader', disk', i).frame.valid
                /\ ~readFrameHeader(reader', disk', i, NoFrame.header).ok
          /\ ~readAudio(reader', disk', IndeterminateAudioHeader, <<>>).ok
          /\ reader'.fileHeader_ = ZeroFileHeader
          /\ ~reader'.isPacked_]_vars

(***************************************************************************)
(* Termination of the sequential scan, under SpecScanLoop.                 *)
(***************************************************************************)
\* Each pass of the loop stops it, or moves the position on by at least 65
\* bytes and adds one entry.
ScanPassAdvances ==
    [][ret.op = "scan" =>
          \/ ret'.arg.st.done /\ ret'.arg.st.index = ret.arg.st.index
          \/ /\ ret'.arg.st.pos >= ret.arg.st.pos + 65
             /\ Len(ret'.arg.st.index) = Len(ret.arg.st.index) + 1]_vars

\* The loop has ended, with the index that buildSequentialIndex returns.
ScanEnded ==
    /\ ret.op = "scanned"
    /\ ret.arg.st.index
          = buildSequentialIndex(
               [ZeroFileHeader EXCEPT !.frameCount = ret.arg.frameCount],
               ret.arg.f).index

\* C36 as stated: on every file, whatever its frame headers hold, each pass
\* of the scan loop stops or advances by at least 65 bytes and adds one
\* entry; the loop body runs at most min(declared frame count, (file length
\* - 512) / 65) times, and the scan ends.
C36_ScanTerminatesAsStated ==
    /\ ScanPassAdvances
    /\ [](ret.arg.bodies <= Min(ret.arg.frameCount,
                                (Len(ret.arg.f) - FILE_HEADER_SIZE) \div 65))
    /\ <>ScanEnded

\* C36 (amended): each pass stops or advances by at least 65 bytes and adds
\* one entry; the entries are at most min(declared frame count, (file
\* length - 512) / 65); the body runs at most min(declared frame count,
\* (file length - 511) / 65) times, the last time possibly to stop at a
\* frame whose 64-byte header is whole and whose payload is not; and the
\* scan ends.
C36_ScanTerminates ==
    /\ ScanPassAdvances
    /\ [](/\ Len(ret.arg.st.index)
               <= Min(ret.arg.frameCount,
                      (Len(ret.arg.f) - FILE_HEADER_SIZE) \div 65)
          /\ ret.arg.bodies
               <= Min(ret.arg.frameCount,
                      (Len(ret.arg.f) - FILE_HEADER_SIZE + 1) \div 65))
    /\ <>ScanEnded

\* The scan of a file of 576 bytes (the file header and one frame header
\* that declares a payload) ended with no entry after one run of the body.
C36_Witness ==
    /\ ret.op = "scanned" /\ Len(ret.arg.f) = 576 /\ ret.arg.frameCount = 1
    /\ ret.arg.bodies = 1 /\ ret.arg.st.index = <<>>

\* The scan of a file of three whole frames ended after three runs of the
\* body, at the declared frame count.
C36_WitnessFull ==
    /\ ret.op = "scanned" /\ ret.arg.frameCount = 3
    /\ ret.arg.bodies = 3 /\ Len(ret.arg.st.index) = 3

(***************************************************************************)
(* Properties of the audio start time, under SpecAudio.                    *)
(***************************************************************************)
\* C37: the audio start time is the timestamp of the first successful
\* submitAudio since enableAudio, whatever that timestamp is (0 included);
\* a later submitAudio does not change it; and stop() writes it into the
\* audio block header and into the file header.
C37_AudioStartTime ==
    [][/\ \A samples \in AudioBlocks, t \in {0, 7} :
             (/\ SubmitAudioCall(samples,
                                 Len(samples) \div writer.audioChannels_, t)
              /\ ret'.ok)
             => writer'.audioStartTime_
                   = IF ghost.audioCalls = 0 THEN t
                     ELSE writer.audioStartTime_
       /\ (ret'.op = "stop" /\ ret'.ok /\ ghost.audioCalls >= 1) =>
             /\ Field(disk'[OutPath], OFF_audio_start_time_us, 8)
                   = writer.audioStartTime_
             /\ Field(disk'[OutPath],
                      Field(disk'[OutPath], OFF_audio_offset, 8) + 24, 8)
                   = writer.audioStartTime_]_vars

(***************************************************************************)
(* Properties of the recorded offsets, under SpecWriter.                   *)
(***************************************************************************)
\* C38: in every sequence of writer calls, failing calls included, when an
\* accepted submitFrame begins the position of the output stream is
\* getBytesWritten(): the offset pushed to the index is where the frame's
\* header is written, and the frame overwrites neither the 512-byte file
\* header nor an earlier frame (the bytes the file held are kept).
C38_OffsetsAreTruePositions ==
    [][(ret'.op = "submitFrame" /\ ret'.ok) =>
          /\ writer.outputFile_.pos = writer.bytesWritten_
          /\ writer'.frameOffsets_[Len(writer'.frameOffsets_)]
                = writer.outputFile_.pos
          /\ SubSeq(disk'[writer.outputPath_], 1, Len(disk[writer.outputPath_]))
                = disk[writer.outputPath_]]_vars

====
